---- MODULE Spec2Model ----
(***************************************************************************)
(* Model of claude-diagnose (src/src/main.rs): the process locator, the    *)
(* per-process instrumentation pipeline (sample, lsof, dtruss / fs_usage), *)
(* the issue rules and the report aggregation.                             *)
(*                                                                         *)
(* Text is modelled structurally.  A line of the process table is a        *)
(* sequence of cells; a cell is either one whitespace character or one     *)
(* maximal run of non-whitespace characters (a token), so two tokens are   *)
(* never adjacent.  Regular expressions without whitespace match inside    *)
(* one token, so a match on a line is a match on one of its tokens.        *)
(* f64 percentages are fixed point, in tenths.                             *)
(***************************************************************************)
EXTENDS Integers, Sequences, FiniteSets, TLC

VARIABLES
    table,      \* stdout of `ps`: a sequence of lines, the header first
    psOk,       \* success flag of the `ps` invocation
    args,       \* struct Args as parsed from the command line
    pc,         \* position of the run
    processes,  \* Vec<ProcessInfo>
    idx,        \* index into processes of the process being analysed
    cur,        \* the ProcessReport under construction
    probe,      \* result of check_dtrace_available for the current session
    report,     \* the DiagnosticReport under construction
    calls,      \* instrumentation invocations so far, in order
    exitCode,   \* exit status of the run, -1 while running
    emitted,    \* what was printed on stdout: "none", "empty" or "report"
    lastRun,    \* the most recent tool invocation and what the tool did
    files,      \* the artifacts on disk: path -> what was written there
    pin,        \* a text handed to a parser or analysis on its own
    pout        \* the results of applying it, in order

vars == <<table, psOk, args, pc, processes, idx, cur, probe, report, calls,
          exitCode, emitted, lastRun, files, pin, pout>>

\* The variables of the parsers taken on their own.
pvars == <<pin, pout>>

(***************************************************************************)
(* Bounds                                                                  *)
(***************************************************************************)
MaxGap == 2        \* widest run of whitespace between two columns

(***************************************************************************)
(* Generic helpers                                                         *)
(***************************************************************************)
Range(s) == {s[k] : k \in 1..Len(s)}

RECURSIVE SumSeq(_)
SumSeq(s) == IF s = <<>> THEN 0 ELSE Head(s) + SumSeq(Tail(s))

RECURSIVE Flatten(_)
Flatten(ss) == IF ss = <<>> THEN <<>> ELSE Head(ss) \o Flatten(Tail(ss))

RECURSIVE Repeat(_, _)
Repeat(x, n) == IF n = 0 THEN <<>> ELSE <<x>> \o Repeat(x, n - 1)

(***************************************************************************)
(* Process table text                                                      *)
(***************************************************************************)
IsWhitespace(c) == c \in {" ", "\t"}

\* Tokens in which (?i)(claude|anthropic) finds a match.
ClaudeTokens == {"claude", "/usr/bin/claude-cli", "Anthropic",
                 "claude-trace", "/usr/local/bin/claude-diagnose"}

\* Tokens that contain the tool's own process names.
SelfTokens == {"claude-trace", "/usr/local/bin/claude-diagnose"}

\* Tokens in which (grep|claude-trace|claude-diagnose) finds a match.
ExcludeTokensNoSelf == {"grep"}

ExcludeTokens == {"grep"} \cup SelfTokens

claude_pattern(line) == \E k \in 1..Len(line) : line[k] \in ClaudeTokens

exclude_pattern(line) == \E k \in 1..Len(line) : line[k] \in ExcludeTokens

\* Tokens that str::parse::<u32> / <u64> accepts, and their values.
IntTokens == {"1", "101", "102", "204800", "512000", "2048"}

IntValue(t) ==
    CASE t = "1" -> 1
      [] t = "101" -> 101
      [] t = "102" -> 102
      [] t = "204800" -> 204800
      [] t = "512000" -> 512000
      [] t = "2048" -> 2048
      [] OTHER -> 0

\* Tokens that str::parse::<f64> accepts, and their values in tenths.
FloatOnlyTokens == {"60.0", "55.0", "40.0", "30.0", "12.5", "3.2"}

F64Tokens == IntTokens \cup FloatOnlyTokens

F64Value(t) ==
    CASE t = "60.0" -> 600
      [] t = "55.0" -> 550
      [] t = "40.0" -> 400
      [] t = "30.0" -> 300
      [] t = "12.5" -> 125
      [] t = "3.2" -> 32
      [] OTHER -> 10 * IntValue(t)

\* str::parse on a piece of a line: the piece must be one numeric token.
ParseIntOkLoose(p) == Len(p) = 1 /\ p[1] \in F64Tokens

ParseIntOk(p) == Len(p) = 1 /\ p[1] \in IntTokens

ParseF64Ok(p) == Len(p) = 1 /\ p[1] \in F64Tokens

\* str::trim
RECURSIVE TrimStart(_)
TrimStart(s) ==
    IF s # <<>> /\ IsWhitespace(Head(s)) THEN TrimStart(Tail(s)) ELSE s

RECURSIVE TrimEnd(_)
TrimEnd(s) ==
    IF s # <<>> /\ IsWhitespace(s[Len(s)])
    THEN TrimEnd(SubSeq(s, 1, Len(s) - 1)) ELSE s

Trim(s) == TrimEnd(TrimStart(s))

\* Index of the first whitespace cell of s, 0 if there is none.
FirstWs(s) ==
    IF \E k \in 1..Len(s) : IsWhitespace(s[k])
    THEN CHOOSE k \in 1..Len(s) :
            IsWhitespace(s[k]) /\ \A j \in 1..(k - 1) : ~IsWhitespace(s[j])
    ELSE 0

\* str::splitn(n, char::is_whitespace): at most n pieces, cut at every single
\* whitespace character; the last piece is the unsplit remainder.
RECURSIVE SplitN(_, _)
SplitN(n, s) ==
    IF n = 0 THEN <<>>
    ELSE IF n = 1 \/ FirstWs(s) = 0 THEN <<s>>
    ELSE <<SubSeq(s, 1, FirstWs(s) - 1)>>
            \o SplitN(n - 1, SubSeq(s, FirstWs(s) + 1, Len(s)))

NotEmpty(p) == p # <<>>

Columns == 9

\* line.splitn(9, char::is_whitespace).filter(|s| !s.is_empty()).collect()
Parts(line) == SelectSeq(SplitN(Columns, line), NotEmpty)

NoRecord == <<>>

\* The body of the loop of get_claude_pids for one line: the records it
\* pushes (none or one).
ParseLine(raw) ==
    LET line == Trim(raw)
        parts == Parts(line)
    IN  IF line = <<>> THEN NoRecord
        ELSE IF ~claude_pattern(line) THEN NoRecord
        ELSE IF exclude_pattern(line) THEN NoRecord
        ELSE IF Len(parts) >= Columns
                /\ ParseIntOk(parts[1]) /\ ParseIntOk(parts[2])
                /\ ParseF64Ok(parts[3]) /\ ParseF64Ok(parts[4])
                /\ ParseIntOk(parts[5]) /\ ParseIntOk(parts[6])
        THEN << [pid     |-> IntValue(parts[1][1]),
                 ppid    |-> IntValue(parts[2][1]),
                 cpu     |-> F64Value(parts[3][1]),
                 mem     |-> F64Value(parts[4][1]),
                 rss_kb  |-> IntValue(parts[5][1]),
                 vsz_kb  |-> IntValue(parts[6][1]),
                 state   |-> parts[7],
                 etime   |-> parts[8],
                 command |-> parts[9]] >>
        ELSE NoRecord

RECURSIVE ParseLines(_)
ParseLines(lines) ==
    IF lines = <<>> THEN <<>>
    ELSE ParseLine(Head(lines)) \o ParseLines(Tail(lines))

\* stdout.lines().skip(1)
SkipHeader(lines) == IF lines = <<>> THEN <<>> ELSE Tail(lines)

get_claude_pids(ok, stdout) ==
    IF ~ok THEN <<>> ELSE ParseLines(SkipHeader(stdout))

(***************************************************************************)
(* Option<T>: None is the empty sequence, Some(x) is <<x>>.                *)
(***************************************************************************)
None == <<>>

Some(x) == <<x>>

Min(a, b) == IF a < b THEN a ELSE b

\* struct Diagnosis; description and remedy are fixed texts per issue and
\* are left out.  subject is the syscall name of a "Slow {} syscalls" issue.
Diag(issue, subject, severity) ==
    [issue |-> issue, subject |-> subject, severity |-> severity]

(***************************************************************************)
(* sample_process                                                          *)
(*                                                                         *)
(* The sample file is a sequence of blocks; a block is one token of the    *)
(* text occurring reps times.  func is the identifier func_pattern         *)
(* captures at the token ("" where the pattern does not match): the text   *)
(* between "+[" and "]", or the name::name before an opening parenthesis.  *)
(***************************************************************************)
SampleBlock(tok, func, reps) == [tok |-> tok, func |-> func, reps |-> reps]

\* Number of occurrences of a marker in a sample text.
RECURSIVE Matches(_, _)
Matches(content, toks) ==
    IF content = <<>> THEN 0
    ELSE (IF Head(content).tok \in toks THEN Head(content).reps ELSE 0)
            + Matches(Tail(content), toks)

Contains(content, toks) == Matches(content, toks) > 0

FSEventsToks == {"FSEvents", "fseventsd"}

KeventToks == {"kevent", "kevent64"}

PollToks == {"poll", "uv__io_poll"}

GcToks == {"GCRuntime", "Scavenge", "MarkCompact"}

CryptoToks == {"CRYPTO_malloc", "SSL_read", "TLS"}

CFRunLoopToks == {"CFRunLoopRun", "__CFRunLoopDoSource0"}

PollingLimit == 50

RunLoopLimit == 100

\* The diagnosis rules of sample_process, in the order of the code.
SampleDiagnosis(content) ==
    (IF Contains(content, FSEventsToks)
        THEN <<Diag("FSEvents Activity", "", "medium")>> ELSE <<>>)
    \o (IF Matches(content, KeventToks) > PollingLimit
           \/ Matches(content, PollToks) > PollingLimit
        THEN <<Diag("High Polling Activity", "", "high")>> ELSE <<>>)
    \o (IF Contains(content, GcToks)
        THEN <<Diag("Garbage Collection Pressure", "", "medium")>> ELSE <<>>)
    \o (IF Contains(content, CryptoToks)
        THEN <<Diag("Cryptographic Operations", "", "low")>> ELSE <<>>)
    \o (IF Matches(content, CFRunLoopToks) > RunLoopLimit
        THEN <<Diag("CFRunLoop Spinning", "", "high")>> ELSE <<>>)

MinFuncLen == 3

MaxHotFunctions == 20

KeepsShortNames(f) == Len(f) > 0

\* f.len() > 3
IsCounted(f) == Len(f) > MinFuncLen

\* The keys of func_counts.
FuncNames(content) ==
    {content[k].func : k \in {j \in 1..Len(content) :
                                content[j].func # "" /\ IsCounted(content[j].func)}}

RECURSIVE FuncCount(_, _)
FuncCount(content, f) ==
    IF content = <<>> THEN 0
    ELSE (IF Head(content).func = f THEN Head(content).reps ELSE 0)
         + FuncCount(Tail(content), f)

\* struct HotFunction
HotFunction(content, f) == [function |-> f, samples |-> FuncCount(content, f)]

\* sort_by(|a, b| b.1.cmp(&a.1)) on the entries as they leave the HashMap:
\* the sort is stable and the map's order arbitrary, so every order of the
\* entries of equal count is a possible result.
RECURSIVE SortedBySamples(_)
SortedBySamples(S) ==
    IF S = {} THEN {<<>>}
    ELSE UNION { {<<x>> \o t : t \in SortedBySamples(S \ {x})} :
                 x \in {y \in S : \A z \in S : y.samples >= z.samples} }

\* The possible values of result.hot_functions: the first 20 of the sorted
\* entries.
HotFunctions(content) ==
    {SubSeq(t, 1, Min(MaxHotFunctions, Len(t))) :
        t \in SortedBySamples({HotFunction(content, f) : f \in FuncNames(content)})}

\* run: [ok: the sample command's success flag, stderr: its error text,
\*       readable: whether fs::read_to_string succeeds, content: the file];
\* hot: one of HotFunctions(run.content).
sample_process(pid, run, hot) ==
    LET base == [pid |-> pid, success |-> run.ok, hot_functions |-> <<>>,
                 diagnosis |-> <<>>, error |-> None]
    IN  IF ~run.ok THEN [base EXCEPT !.error = Some(run.stderr)]
        ELSE IF ~run.readable THEN [base EXCEPT !.error = Some("read error")]
        ELSE [base EXCEPT !.hot_functions = hot,
                          !.diagnosis = SampleDiagnosis(run.content)]

(***************************************************************************)
(* analyze_file_descriptors                                                *)
(*                                                                         *)
(* The lsof listing after its header is a sequence of blocks; a block is   *)
(* reps consecutive rows of the same shape: fields whitespace-separated    *)
(* fields, fd_type in field 5, watcher if the lowercased row contains      *)
(* fsevents or kqueue, tcp if the row contains TCP or UDP, and names that  *)
(* are pairwise different within the block when distinct is set.           *)
(***************************************************************************)
MinFdFields == 9

MaxNetworkConnections == 20

MaxWatchedPaths == 50

FdLimit == 1000

WatchLimit == 100

IsNetworkRow(b) == b.fd_type \in {"IPv4", "IPv6"} \/ b.tcp

\* Number of rows of block b the loop takes before it breaks, given the
\* number of network connections collected so far.
RowsTaken(b, net) ==
    IF IsNetworkRow(b) THEN Min(b.reps, MaxNetworkConnections - net)
    ELSE b.reps

\* The loop over the rows: acc = [by_type, watched, net, stopped].
RECURSIVE FdLoop(_, _)
FdLoop(blocks, acc) ==
    IF blocks = <<>> \/ acc.stopped THEN acc
    ELSE LET b == Head(blocks)
             n == RowsTaken(b, acc.net)
         IN  IF b.fields < MinFdFields THEN FdLoop(Tail(blocks), acc)
             ELSE FdLoop(Tail(blocks),
                    [by_type |-> [t \in DOMAIN acc.by_type \cup {b.fd_type} |->
                                    (IF t \in DOMAIN acc.by_type
                                     THEN acc.by_type[t] ELSE 0)
                                    + (IF t = b.fd_type THEN n ELSE 0)],
                     watched |-> IF b.watcher
                                 THEN acc.watched
                                      \cup {<<b.name, IF b.distinct THEN k ELSE 0>> :
                                              k \in 1..n}
                                 ELSE acc.watched,
                     net |-> IF IsNetworkRow(b) THEN acc.net + n ELSE acc.net,
                     stopped |-> IsNetworkRow(b)
                                 /\ acc.net + n >= MaxNetworkConnections])

RECURSIVE TotalRows(_)
TotalRows(blocks) ==
    IF blocks = <<>> THEN 0 ELSE Head(blocks).reps + TotalRows(Tail(blocks))

\* run: [ok: lsof's success flag, stderr: its error text, rows: the listing
\*       after the header line].
analyze_file_descriptors(pid, run) ==
    LET base == [pid |-> pid, total_fds |-> 0, by_type |-> <<>>,
                 watched_paths |-> 0, network_connections |-> 0,
                 issues |-> <<>>, error |-> None]
        acc  == FdLoop(run.rows, [by_type |-> <<>>, watched |-> {},
                                  net |-> 0, stopped |-> FALSE])
        total == TotalRows(run.rows)
        paths == Min(Cardinality(acc.watched), MaxWatchedPaths)
    IN  IF ~run.ok THEN [base EXCEPT !.error = Some(run.stderr)]
        ELSE [base EXCEPT
                !.total_fds = total,
                !.by_type = acc.by_type,
                !.watched_paths = paths,
                !.network_connections = acc.net,
                !.issues =
                    (IF total > FdLimit
                     THEN <<Diag("High File Descriptor Count", "", "high")>>
                     ELSE <<>>)
                    \o (IF paths > WatchLimit
                        THEN <<Diag("Excessive File Watching", "", "high")>>
                        ELSE <<>>)]

(***************************************************************************)
(* dtruss text                                                             *)
(*                                                                         *)
(* The trace text is a sequence of blocks; a block is reps consecutive     *)
(* lines "name(fd, args) = res time" with the same fields.  name is ""     *)
(* for a line that does not start with an identifier and a parenthesis;    *)
(* fd is the text before the first comma ("" if none); path is the quoted  *)
(* substring of the arguments, addr and port the two sides of an           *)
(* address:port substring ("" if none); eq says whether the "=" is there;  *)
(* res is the result text ("" if none) and time the trailing number.       *)
(***************************************************************************)
DecimalFds == {"3", "5"}

HexFds == {"0x1f"}

FdValue(t) ==
    CASE t = "3" -> 3
      [] t = "5" -> 5
      [] t = "0x1f" -> 31
      [] OTHER -> -1

ErrResults == {"Err#2", "Err#9"}

NumResults == {"0", "42", "-1", "-10"}

ResValue(t) ==
    CASE t = "0" -> 0
      [] t = "42" -> 42
      [] t = "-1" -> -1
      [] t = "-10" -> -10
      [] OTHER -> 0

\* syscall_pattern: ^\s*(\w+)\([^)]*\)\s*=?\s*(-?\d+|Err#\d+)?\s+(\d+)?
SyscallMatch(l) == l.name # ""

\* result.starts_with("Err") || result.starts_with("-1")
IsError(l) == l.res \in ErrResults \/ l.res \in {"-1", "-10"}

SyscallNames(text) == {text[k].name : k \in {j \in 1..Len(text) : SyscallMatch(text[j])}}

RECURSIVE CountOf(_, _)
CountOf(text, name) ==
    IF text = <<>> THEN 0
    ELSE (IF SyscallMatch(Head(text)) /\ Head(text).name = name
          THEN Head(text).reps ELSE 0) + CountOf(Tail(text), name)

RECURSIVE TimeOf(_, _)
TimeOf(text, name) ==
    IF text = <<>> THEN 0
    ELSE (IF SyscallMatch(Head(text)) /\ Head(text).name = name
          THEN Head(text).reps * Head(text).time ELSE 0)
         + TimeOf(Tail(text), name)

RECURSIVE ErrorsOf(_, _)
ErrorsOf(text, name) ==
    IF text = <<>> THEN 0
    ELSE (IF SyscallMatch(Head(text)) /\ Head(text).name = name
             /\ IsError(Head(text))
          THEN Head(text).reps ELSE 0) + ErrorsOf(Tail(text), name)

\* struct SyscallEntry; avg_time_us = total_time_us / count is kept as the
\* pair of its numerator and denominator.
SyscallEntry(text, name) ==
    [name |-> name, count |-> CountOf(text, name),
     total_time_us |-> TimeOf(text, name),
     avg_time_us |-> <<TimeOf(text, name), CountOf(text, name)>>,
     errors |-> ErrorsOf(text, name)]

CountAscending(y, S) == \A z \in S : y.count <= z.count

\* sort_by(|a, b| b.count.cmp(&a.count)): an entry that may come first.
CountDescending(y, S) == \A z \in S : y.count >= z.count

\* The sorted orders of a set of entries: the entries leave the HashMap in an
\* arbitrary order and the stable sort keeps that order among equal counts.
RECURSIVE SortedByCount(_)
SortedByCount(S) ==
    IF S = {} THEN {<<>>}
    ELSE UNION { {<<x>> \o t : t \in SortedByCount(S \ {x})} :
                 x \in {y \in S : CountDescending(y, S)} }

\* parse_dtruss_output: one possible result per order of the ties.
parse_dtruss_output(text) ==
    SortedByCount({SyscallEntry(text, n) : n \in SyscallNames(text)})

IoSyscalls == {"read", "write", "pread", "pwrite", "open", "close", "stat",
               "fstat", "lstat"}

NetSyscalls == {"socket", "connect", "bind", "listen", "accept", "send",
                "recv", "sendto", "recvfrom", "sendmsg", "recvmsg"}

\* io_pattern: ^\s*(read|...)\((\d+|0x[0-9a-f]+)?,?\s*([^)]*)\)\s*=\s*(-?\d+)\s+(\d+)
IoMatch(l) == l.name \in IoSyscalls /\ l.eq /\ l.res \in NumResults

IoOperation(l) ==
    [syscall |-> l.name,
     fd |-> IF l.fd \in DecimalFds \cup HexFds THEN FdValue(l.fd) ELSE -1,
     path |-> IF l.path # "" THEN Some(l.path) ELSE None,
     bytes |-> IF ResValue(l.res) < 0 THEN 0 ELSE ResValue(l.res),
     latency_us |-> l.time]

RECURSIVE extract_io_operations(_)
extract_io_operations(text) ==
    IF text = <<>> THEN <<>>
    ELSE (IF IoMatch(Head(text))
          THEN Repeat(IoOperation(Head(text)), Head(text).reps) ELSE <<>>)
         \o extract_io_operations(Tail(text))

\* Ports that str::parse::<u16> accepts.
U16Ports == {"443"}

PortValue(t) == IF t = "443" THEN 443 ELSE 0

\* extract_sockaddr
extract_sockaddr(l) ==
    IF l.addr # "" /\ l.port # ""
    THEN [address |-> Some(l.addr),
          port |-> IF l.port \in U16Ports THEN Some(PortValue(l.port)) ELSE None]
    ELSE [address |-> None, port |-> None]

\* net_pattern: ^\s*(socket|...)\((\d+)?,?\s*([^)]*)\)\s*=\s*(-?\d+)\s+(\d+)
NetMatch(l) == l.name \in NetSyscalls /\ l.eq /\ l.res \in NumResults

\* A hexadecimal descriptor is read up to its "x": (\d+)? takes the "0".
NetworkOperation(l) ==
    [syscall |-> l.name,
     fd |-> IF l.fd \in DecimalFds THEN FdValue(l.fd)
            ELSE IF l.fd \in HexFds THEN 0 ELSE -1,
     address |-> extract_sockaddr(l).address,
     port |-> extract_sockaddr(l).port,
     bytes |-> IF ResValue(l.res) < 0 THEN 0 ELSE ResValue(l.res),
     latency_us |-> l.time]

RECURSIVE extract_network_operations(_)
extract_network_operations(text) ==
    IF text = <<>> THEN <<>>
    ELSE (IF NetMatch(Head(text))
          THEN Repeat(NetworkOperation(Head(text)), Head(text).reps)
          ELSE <<>>)
         \o extract_network_operations(Tail(text))

(***************************************************************************)
(* fs_usage text: blocks of reps lines "timestamp op path elapsed proc";   *)
(* op is "" for a line of another shape.                                   *)
(***************************************************************************)
RECURSIVE parse_fs_usage_output(_)
parse_fs_usage_output(text) ==
    IF text = <<>> THEN <<>>
    ELSE (IF Head(text).op # ""
          THEN Repeat([syscall |-> Head(text).op, fd |-> -1,
                       path |-> Some(Head(text).path), bytes |-> 0,
                       latency_us |-> 0], Head(text).reps)
          ELSE <<>>)
         \o parse_fs_usage_output(Tail(text))

(***************************************************************************)
(* analyze_dtrace_issues                                                   *)
(***************************************************************************)
PollNames == {"poll", "select", "kevent", "kevent64"}

IoErrorNames == {"read", "write", "open", "stat"}

FileOpNames == {"open", "close", "stat", "fstat", "lstat", "access"}

PollLimit == 1000

IoErrorLimit == 100

SlowAvgLimit == 10000

SlowCountLimit == 10

FileOpLimit == 5000

RECURSIVE SumCount(_, _)
SumCount(summary, names) ==
    IF summary = <<>> THEN 0
    ELSE (IF Head(summary).name \in names THEN Head(summary).count ELSE 0)
         + SumCount(Tail(summary), names)

RECURSIVE SumErrors(_, _)
SumErrors(summary, names) ==
    IF summary = <<>> THEN 0
    ELSE (IF Head(summary).name \in names THEN Head(summary).errors ELSE 0)
         + SumErrors(Tail(summary), names)

IsSlowInclusive(e) ==
    e.avg_time_us[1] >= SlowAvgLimit * e.avg_time_us[2]
    /\ e.count >= SlowCountLimit

\* syscall.avg_time_us > 10000.0 && syscall.count > 10
IsSlow(e) ==
    e.avg_time_us[1] > SlowAvgLimit * e.avg_time_us[2]
    /\ e.count > SlowCountLimit

RECURSIVE SlowIssues(_)
SlowIssues(summary) ==
    IF summary = <<>> THEN <<>>
    ELSE (IF IsSlow(Head(summary))
          THEN <<Diag("Slow syscalls", Head(summary).name, "medium")>>
          ELSE <<>>)
         \o SlowIssues(Tail(summary))

analyze_dtrace_issues(summary) ==
    (IF SumCount(summary, PollNames) > PollLimit
     THEN <<Diag("Excessive Event Polling", "", "high")>> ELSE <<>>)
    \o (IF SumErrors(summary, IoErrorNames) > IoErrorLimit
        THEN <<Diag("High I/O Error Rate", "", "medium")>> ELSE <<>>)
    \o SlowIssues(summary)
    \o (IF SumCount(summary, FileOpNames) > FileOpLimit
        THEN <<Diag("Excessive File Operations", "", "medium")>> ELSE <<>>)

(***************************************************************************)
(* check_dtrace_available, run_dtruss, run_fs_usage_fallback, trace_process *)
(***************************************************************************)
\* The probe that says only whether the tracer can be used.
ProbeWithoutReason(run) ==
    IF ~run.started \/ run.sip \/ (~run.ok /\ run.sudo)
    THEN [available |-> FALSE, reason |-> None]
    ELSE [available |-> TRUE, reason |-> None]

\* run: [started: whether `sudo -n dtruss -h` could be spawned, ok: its exit
\*       status is success, sip: stderr contains "Operation not permitted"
\*       or "SIP", sudo: stderr contains "sudo"].
check_dtrace_available(run) ==
    IF ~run.started
    THEN [available |-> FALSE, reason |-> Some("dtruss not available")]
    ELSE IF run.sip
    THEN [available |-> FALSE, reason |-> Some("SIP is blocking DTrace")]
    ELSE IF ~run.ok /\ run.sudo
    THEN [available |-> FALSE, reason |-> Some("sudo access required")]
    ELSE [available |-> TRUE, reason |-> None]

TimeoutExit == 124

TimedOutIsSuccessOff(code) == code = 0

\* output.status.success() || output.status.code() == Some(124)
ExitIsSuccess(code) == code = 0 \/ code = TimeoutExit

\* run: [started, code, stdout, stderr] of `sudo timeout <d>s dtruss -p <pid>`.
run_dtruss(run) ==
    IF run.started
    THEN [success |-> ExitIsSuccess(run.code), stdout |-> run.stdout,
          stderr |-> run.stderr]
    ELSE [success |-> FALSE, stdout |-> <<>>, stderr |-> run.stderr]

\* run: [started, code, stdout, stderr] of `sudo timeout <d>s fs_usage ...`.
run_fs_usage_fallback(run) ==
    IF run.started
    THEN [success |-> ExitIsSuccess(run.code), stdout |-> run.stdout,
          stderr |-> run.stderr]
    ELSE [success |-> FALSE, stdout |-> <<>>, stderr |-> run.stderr]

TopSyscalls == 10

\* The DtraceResult trace_process starts from.
NewDtraceResult(pid) ==
    [pid |-> pid, success |-> FALSE, method |-> "",
     syscall_summary |-> <<>>, io_operations |-> <<>>,
     network_operations |-> <<>>, top_syscalls |-> <<>>, issues |-> <<>>,
     error |-> None, fallback_reason |-> None]

\* trace_process when the probe reported availability; summary is the result
\* of parse_dtruss_output on the tracer's stderr.
TraceDtruss(pid, mode, run, summary) ==
    LET out == run_dtruss(run)
        r0  == [NewDtraceResult(pid) EXCEPT !.method = "dtruss"]
    IN  IF out.success
        THEN [r0 EXCEPT
                !.success = TRUE,
                !.syscall_summary = summary,
                !.top_syscalls = SubSeq(summary, 1, Min(TopSyscalls, Len(summary))),
                !.io_operations =
                    IF mode \in {"Io", "General"}
                    THEN extract_io_operations(out.stderr) ELSE <<>>,
                !.network_operations =
                    IF mode \in {"Network", "General"}
                    THEN extract_network_operations(out.stderr) ELSE <<>>,
                !.issues = analyze_dtrace_issues(summary)]
        ELSE [r0 EXCEPT !.error = Some(out.stderr)]

FallbackIssue == Diag("Using Fallback Tracing", "", "low")

FallbackMethodCopied == "dtruss"

\* result.method = "fs_usage".to_string()
FallbackMethod == "fs_usage"

\* The diagnosis pushed before the tool's outcome is looked at.
TraceFallbackIssueFirst(pid, reason, run) ==
    LET out == run_fs_usage_fallback(run)
        r0  == [NewDtraceResult(pid) EXCEPT !.method = FallbackMethod,
                                            !.fallback_reason = reason,
                                            !.issues = <<FallbackIssue>>]
    IN  IF out.success
        THEN [r0 EXCEPT
                !.success = TRUE,
                !.io_operations = parse_fs_usage_output(out.stdout)]
        ELSE [r0 EXCEPT !.error = Some(out.stderr)]

\* trace_process when the probe reported unavailability.
TraceFallback(pid, reason, run) ==
    LET out == run_fs_usage_fallback(run)
        r0  == [NewDtraceResult(pid) EXCEPT !.method = FallbackMethod,
                                            !.fallback_reason = reason]
    IN  IF out.success
        THEN [r0 EXCEPT
                !.success = TRUE,
                !.io_operations = parse_fs_usage_output(out.stdout),
                !.issues = <<FallbackIssue>>]
        ELSE [r0 EXCEPT !.error = Some(out.stderr)]

(***************************************************************************)
(* generate_report: aggregation                                            *)
(***************************************************************************)
\* format!("PID {}: {}", pid, issue)
PidString(pid, d) == [pid |-> pid, issue |-> d.issue, subject |-> d.subject]

\* format!("Aggregate CPU usage ({:.1}%) exceeds single core", total_cpu)
CpuString == [pid |-> 0, issue |-> "Aggregate CPU usage exceeds single core",
              subject |-> ""]

RECURSIVE Promote(_, _, _)
Promote(pid, diags, severity) ==
    IF diags = <<>> THEN <<>>
    ELSE (IF Head(diags).severity = severity
          THEN <<PidString(pid, Head(diags))>> ELSE <<>>)
         \o Promote(pid, Tail(diags), severity)

PromoteLow(pid, diags) == Promote(pid, diags, "low")

\* The match on diag.severity after sample_process and after trace_process.
PromoteHigh(pid, diags) == Promote(pid, diags, "high")

PromoteMedium(pid, diags) == Promote(pid, diags, "medium")

\* The loop after analyze_file_descriptors promotes high severity only.
PromoteFd(pid, diags) == Promote(pid, diags, "high")

CpuLimit == 1000   \* 100.0 percent, in tenths

ExceedsSingleCoreInclusive(total) == total >= CpuLimit

ExceedsSingleCore(total) == total > CpuLimit

\* if args.io { Io } else if args.network { Network } else { General }
DtraceModeNetworkFirst(a) ==
    IF a.network THEN "Network" ELSE IF a.io THEN "Io" ELSE "General"

DtraceMode(a) == IF a.io THEN "Io" ELSE IF a.network THEN "Network" ELSE "General"

EmptyReport ==
    [processes |-> <<>>,
     summary |-> [total_cpu |-> 0, total_mem |-> 0, total_rss_mb |-> 0,
                  critical_issues |-> <<>>, warnings |-> <<>>]]

NewProcessReport(proc) ==
    [pid |-> proc.pid, cpu |-> proc.cpu, mem |-> proc.mem,
     rss_mb |-> proc.rss_kb \div 1024, command |-> proc.command,
     sample |-> None, file_descriptors |-> None, dtrace |-> None]

NoProcessReport ==
    [pid |-> 0, cpu |-> 0, mem |-> 0, rss_mb |-> 0, command |-> <<>>,
     sample |-> None, file_descriptors |-> None, dtrace |-> None]

NoProbe == [available |-> FALSE, reason |-> None]

Call(tool, pid) == [tool |-> tool, pid |-> pid]

Ran(tool, run) == [tool |-> tool, run |-> run]

NoRun == Ran("none", <<>>)

\* A path is the pair of its text and the pid formatted into it (0 when no
\* pid is formatted into it); files maps the paths written so far to what
\* they hold: the pid the data is about and the kind of data.
NoFiles == [p \in {} |-> <<>>]

Write(fs, path, data) ==
    [p \in DOMAIN fs \cup {path} |-> IF p = path THEN data ELSE fs[p]]

\* format!("/tmp/claude_sample_{}.txt", pid)
SamplePath(pid) == <<"/tmp/claude_sample_{}.txt", pid>>

\* svg_path: output_path, with ".svg" appended unless it ends with it.
SvgPath(pid) == <<"{output}.svg", 0>>

\* folded_path = svg_path.replace(".svg", ".folded")
FoldedPath(pid) == <<"{output}.folded", 0>>

\* The sample tool writes its -file when it succeeds.
SampleFiles(fs, pid, run) ==
    IF run.ok /\ run.readable
    THEN Write(fs, SamplePath(pid), [pid |-> pid, kind |-> "sample"])
    ELSE fs

FlamegraphOutcomes ==
    {"create folded failed", "create svg failed", "render failed", "written"}

\* generate_flamegraph: File::create(folded_path), write_all,
\* File::create(svg_path), flamegraph::from_reader; each "?" returns early.
generate_flamegraph(fs, pid, outcome) ==
    LET folded == Write(fs, FoldedPath(pid), [pid |-> pid, kind |-> "folded"])
    IN  IF outcome = "create folded failed" THEN fs
        ELSE IF outcome = "create svg failed" THEN folded
        ELSE Write(folded, SvgPath(pid), [pid |-> pid, kind |-> "svg"])

NotFoundExitZero == 1 - 1

\* std::process::exit(1)
NotFoundExit == 1

(***************************************************************************)
(* Inputs: process tables                                                  *)
(***************************************************************************)
\* The whitespace between two columns: a space, then tabs up to width w.
Gap(w) == <<" ">> \o Repeat("\t", w - 1)

\* The tokens joined by single spaces, except that the whitespace after
\* token number wide (if there is such a token) has width MaxGap.
RECURSIVE Join(_, _)
Join(toks, wide) ==
    IF toks = <<>> THEN <<>>
    ELSE IF Len(toks) = 1 THEN toks
    ELSE <<Head(toks)>> \o Gap(IF wide = 1 THEN MaxGap ELSE 1)
            \o Join(Tail(toks), wide - 1)

Header == Join(<<"PID", "PPID", "%CPU", "%MEM", "RSS", "VSZ", "STAT",
                 "ELAPSED", "COMMAND">>, 0)

Fixed(pid, cpu) ==
    <<pid, "1", cpu, "3.2", "204800", "512000", "S+", "01:23:45">>

Commands == { <<"/usr/bin/claude-cli", "run">>, <<"Anthropic">>,
              <<"claude-trace">>, <<"node", "/usr/local/bin/claude-diagnose">>,
              <<"grep", "claude">>, <<"bash">>, <<>> }

\* A column whose token is replaced: <<column, token>>; column 0 is none.
Replacements == { <<0, "">>, <<1, "x">>, <<1, "12.5">>, <<3, "x">>,
                  <<5, "3.2">>, <<6, "x">> }

Replace(toks, r) ==
    [k \in 1..Len(toks) |-> IF k = r[1] THEN r[2] ELSE toks[k]]

LocatorRows ==
    { Repeat(" ", lead)
        \o Join(Replace(Fixed("101", "12.5"), r) \o cmd, wide) :
        lead \in 0..1, r \in Replacements, cmd \in Commands, wide \in 0..9 }

PairRows ==
    { Join(Fixed(pid, "12.5") \o cmd, wide) :
        pid \in {"101", "x"},
        cmd \in { <<"/usr/bin/claude-cli", "run">>, <<"claude-trace">> },
        wide \in {0, 2} }

LocatorTables ==
    { <<Header, r>> : r \in LocatorRows }
    \cup { <<Header, r1, r2>> : r1 \in PairRows, r2 \in PairRows }

Candidate(pid, cpu) == Join(Fixed(pid, cpu) \o <<"/usr/bin/claude-cli", "run">>, 0)

MainTables ==
    { <<Header>>,
      <<Header, Join(Fixed("101", "12.5") \o <<"bash">>, 0)>>,
      <<Header, Candidate("101", "60.0")>>,
      <<Header, Candidate("101", "60.0"), Candidate("102", "55.0")>>,
      <<Header, Candidate("101", "40.0"), Candidate("102", "30.0")>>,
      <<Header, Candidate("101", "60.0"),
                Join(Fixed("1", "12.5") \o <<"grep", "claude">>, 0),
                Candidate("102", "40.0")>> }

(***************************************************************************)
(* Inputs: command lines.  pid = 0 stands for no --pid.                    *)
(***************************************************************************)
Flags(deep, sample, dtrace, io, network, flamegraph, output, pid) ==
    [deep |-> deep, sample |-> sample, dtrace |-> dtrace, io |-> io,
     network |-> network, flamegraph |-> flamegraph, output |-> output,
     pid |-> pid]

ArgConfigs ==
    { Flags(FALSE, FALSE, FALSE, FALSE, FALSE, FALSE, FALSE, 0),
      Flags(TRUE,  FALSE, FALSE, FALSE, FALSE, FALSE, FALSE, 0),
      Flags(FALSE, TRUE,  FALSE, FALSE, FALSE, FALSE, FALSE, 0),
      Flags(FALSE, FALSE, TRUE,  FALSE, FALSE, FALSE, FALSE, 0),
      Flags(FALSE, FALSE, TRUE,  TRUE,  TRUE,  TRUE,  TRUE,  0),
      Flags(FALSE, FALSE, TRUE,  FALSE, TRUE,  TRUE,  FALSE, 0),
      Flags(FALSE, TRUE,  TRUE,  FALSE, FALSE, FALSE, FALSE, 0),
      Flags(TRUE,  FALSE, FALSE, FALSE, FALSE, FALSE, FALSE, 102),
      Flags(FALSE, FALSE, TRUE,  FALSE, FALSE, FALSE, FALSE, 999),
      Flags(FALSE, FALSE, FALSE, FALSE, FALSE, FALSE, FALSE, 101) }

(***************************************************************************)
(* Inputs: what the external tools do                                      *)
(***************************************************************************)
SampleTexts ==
    { << SampleBlock("kevent64", "", 51), SampleBlock("FSEvents", "", 1),
         SampleBlock("SSL_read", "", 1) >>,
      << SampleBlock("kevent", "", 50), SampleBlock("CFRunLoopRun", "", 100) >> }

SampleRuns ==
    { [ok |-> FALSE, stderr |-> "sample: no such process", readable |-> FALSE,
       content |-> <<>>],
      [ok |-> TRUE, stderr |-> "", readable |-> FALSE, content |-> <<>>] }
    \cup { [ok |-> TRUE, stderr |-> "", readable |-> TRUE, content |-> c] :
            c \in SampleTexts }

FdRow(fields, fd_type, name, watcher, tcp, distinct, reps) ==
    [fields |-> fields, fd_type |-> fd_type, name |-> name,
     watcher |-> watcher, tcp |-> tcp, distinct |-> distinct, reps |-> reps]

FdListings ==
    { << FdRow(9, "REG", "/tmp/a", FALSE, FALSE, TRUE, 3),
         FdRow(10, "IPv4", "host:443", FALSE, TRUE, TRUE, 2),
         FdRow(9, "KQUEUE", "count=0", TRUE, FALSE, FALSE, 1) >>,
      << FdRow(9, "REG", "/tmp/a", FALSE, FALSE, TRUE, 1001) >> }

FdRuns ==
    { [ok |-> FALSE, stderr |-> "lsof: no such pid", rows |-> <<>>] }
    \cup { [ok |-> TRUE, stderr |-> "", rows |-> l] : l \in FdListings }

ProbeRuns ==
    { [started |-> FALSE, ok |-> FALSE, sip |-> FALSE, sudo |-> FALSE] }
    \cup [started : {TRUE}, ok : BOOLEAN, sip : BOOLEAN, sudo : BOOLEAN]

TraceLine(name, fd, path, addr, port, eq, res, time, reps) ==
    [name |-> name, fd |-> fd, path |-> path, addr |-> addr, port |-> port,
     eq |-> eq, res |-> res, time |-> time, reps |-> reps]

JunkLine == TraceLine("", "", "", "", "", FALSE, "", 0, 1)

TraceTexts ==
    { << TraceLine("poll", "0x1f", "", "", "", TRUE, "0", 5, 1001),
         JunkLine,
         TraceLine("read", "3", "/etc/hosts", "", "", TRUE, "-1", 20000, 11),
         TraceLine("connect", "5", "", "10.0.0.1", "443", TRUE, "0", 7, 1) >>,
      << TraceLine("read", "3", "", "", "", TRUE, "42", 5, 1),
         TraceLine("sendto", "5", "", "", "", TRUE, "42", 5, 1) >> }

ExitCodes == {0, 1, TimeoutExit}

DtrussRuns ==
    { [started |-> FALSE, code |-> 1, stdout |-> <<>>, stderr |-> <<JunkLine>>] }
    \cup { [started |-> TRUE, code |-> c, stdout |-> <<>>, stderr |-> t] :
            c \in ExitCodes, t \in TraceTexts }

FsLine(op, path, reps) == [op |-> op, path |-> path, reps |-> reps]

FsTexts ==
    { << FsLine("open", "/etc/hosts", 2), FsLine("", "", 1) >>, <<>> }

FsUsageRuns ==
    { [started |-> FALSE, code |-> 1, stdout |-> <<>>,
       stderr |-> <<FsLine("", "", 1)>>] }
    \cup { [started |-> TRUE, code |-> c, stdout |-> t,
            stderr |-> <<FsLine("", "", 1)>>] :
            c \in ExitCodes, t \in FsTexts }

(***************************************************************************)
(* The run: main and generate_report                                       *)
(***************************************************************************)
Idle ==
    /\ pc = "start"
    /\ processes = <<>>
    /\ idx = 0
    /\ cur = NoProcessReport
    /\ probe = NoProbe
    /\ report = EmptyReport
    /\ calls = <<>>
    /\ exitCode = -1
    /\ emitted = "none"
    /\ lastRun = NoRun
    /\ files = NoFiles

NoInput == [kind |-> "none", data |-> <<>>]

Init ==
    /\ table \in MainTables
    /\ psOk \in BOOLEAN
    /\ args \in ArgConfigs
    /\ Idle
    /\ pin = NoInput
    /\ pout = <<>>

\* main: sampling implies deep mode; get_claude_pids.
Locate ==
    /\ pc = "start"
    /\ args' = [args EXCEPT !.deep = args.deep \/ args.sample]
    /\ processes' = get_claude_pids(psOk, table)
    /\ pc' = "filter"
    /\ UNCHANGED <<table, psOk, idx, cur, probe, report, calls, exitCode, emitted, lastRun>>
    /\ UNCHANGED <<files, pin, pout>>

HasRequestedPid(p) == p.pid = args.pid

\* processes.retain(|p| p.pid == pid)
Retained == IF args.pid # 0 THEN SelectSeq(processes, HasRequestedPid)
            ELSE processes

\* main: the requested pid is not among the candidates.
PidNotFound ==
    /\ pc = "filter"
    /\ args.pid # 0
    /\ Retained = <<>>
    /\ processes' = Retained
    /\ exitCode' = NotFoundExit
    /\ pc' = "exit"
    /\ UNCHANGED <<table, psOk, args, idx, cur, probe, report, calls, emitted, lastRun>>
    /\ UNCHANGED <<files, pin, pout>>

\* main: no candidates and no requested pid.
NoProcesses ==
    /\ pc = "filter"
    /\ args.pid = 0
    /\ Retained = <<>>
    /\ emitted' = "empty"
    /\ exitCode' = 0
    /\ pc' = "exit"
    /\ UNCHANGED <<table, psOk, args, processes, idx, cur, probe, report, calls, lastRun>>
    /\ UNCHANGED <<files, pin, pout>>

\* main calls generate_report, which builds the empty report.
StartReport ==
    /\ pc = "filter"
    /\ Retained # <<>>
    /\ processes' = Retained
    /\ report' = EmptyReport
    /\ idx' = 1
    /\ pc' = "proc"
    /\ UNCHANGED <<table, psOk, args, cur, probe, calls, exitCode, emitted, lastRun>>
    /\ UNCHANGED <<files, pin, pout>>

AfterFdNoTrace == "push"

\* generate_report: if args.dtrace { trace_process }
AfterFd == IF args.dtrace THEN "probe" ELSE "push"

\* generate_report: the head of the loop body for processes[idx].
BeginProcess ==
    /\ pc = "proc"
    /\ idx <= Len(processes)
    /\ cur' = NewProcessReport(processes[idx])
    /\ report' = [report EXCEPT
            !.summary.total_cpu = @ + processes[idx].cpu,
            !.summary.total_mem = @ + processes[idx].mem,
            !.summary.total_rss_mb = @ + processes[idx].rss_kb \div 1024]
    /\ pc' = IF args.deep \/ args.sample
             THEN (IF args.sample THEN "sample" ELSE "fd")
             ELSE AfterFd
    /\ UNCHANGED <<table, psOk, args, processes, idx, probe, calls, exitCode, emitted, lastRun>>
    /\ UNCHANGED <<files, pin, pout>>

AfterSampleSkipFd(r) == IF r.error = None THEN "fd" ELSE "push"

AfterSampleAbort(r) == IF r.error = None THEN "fd" ELSE "exit"

\* generate_report goes on to analyze_file_descriptors whatever the sample
\* result holds.
AfterSample(r) == "fd"

\* generate_report: sample_process and the promotion of its diagnoses.
SampleStep ==
    /\ pc = "sample"
    /\ \E run \in SampleRuns : \E hot \in HotFunctions(run.content) :
        LET r == sample_process(cur.pid, run, hot)
        IN  /\ cur' = [cur EXCEPT !.sample = Some(r)]
            /\ report' = [report EXCEPT
                    !.summary.critical_issues = @ \o PromoteHigh(cur.pid, r.diagnosis),
                    !.summary.warnings = @ \o PromoteMedium(cur.pid, r.diagnosis)]
            /\ lastRun' = Ran("sample", run)
            /\ files' = SampleFiles(files, cur.pid, run)
            /\ pc' = AfterSample(r)
    /\ calls' = Append(calls, Call("sample", cur.pid))
    /\ UNCHANGED <<table, psOk, args, processes, idx, probe, exitCode, emitted>>
    /\ UNCHANGED pvars

FdStep ==
    /\ pc = "fd"
    /\ \E run \in FdRuns :
        LET r == analyze_file_descriptors(cur.pid, run)
        IN  /\ cur' = [cur EXCEPT !.file_descriptors = Some(r)]
            /\ report' = [report EXCEPT
                    !.summary.critical_issues = @ \o PromoteFd(cur.pid, r.issues)]
            /\ lastRun' = Ran("lsof", run)
    /\ calls' = Append(calls, Call("lsof", cur.pid))
    /\ pc' = AfterFd
    /\ UNCHANGED <<table, psOk, args, processes, idx, probe, exitCode, emitted>>
    /\ UNCHANGED <<files, pin, pout>>

TracerForSwapped(available) == IF available THEN "fs_usage" ELSE "dtruss"

\* trace_process: if dtrace_available { dtruss } else { fs_usage }
TracerFor(available) == IF available THEN "dtruss" ELSE "fs_usage"

\* trace_process: the capability probe.
ProbeStep ==
    /\ pc = "probe"
    /\ \E run \in ProbeRuns :
        /\ probe' = check_dtrace_available(run)
        /\ pc' = TracerFor(check_dtrace_available(run).available)
        /\ lastRun' = Ran("probe", run)
    /\ calls' = Append(calls, Call("probe", cur.pid))
    /\ UNCHANGED <<table, psOk, args, processes, idx, cur, report, exitCode, emitted>>
    /\ UNCHANGED <<files, pin, pout>>

AfterTrace(r) ==
    IF args.flamegraph /\ r.success /\ args.output THEN "flamegraph" ELSE "push"

\* generate_report: the promotion loop after trace_process.
Traced(r) ==
    /\ cur' = [cur EXCEPT !.dtrace = Some(r)]
    /\ report' = [report EXCEPT
            !.summary.critical_issues = @ \o PromoteHigh(cur.pid, r.issues),
            !.summary.warnings = @ \o PromoteMedium(cur.pid, r.issues)]
    /\ pc' = AfterTrace(r)

\* trace_process: the primary tracer.
DtrussStep ==
    /\ pc = "dtruss"
    /\ \E run \in DtrussRuns :
        \E summary \in parse_dtruss_output(run_dtruss(run).stderr) :
            /\ Traced(TraceDtruss(cur.pid, DtraceMode(args), run, summary))
            /\ lastRun' = Ran("dtruss", run)
    /\ calls' = Append(calls, Call("dtruss", cur.pid))
    /\ UNCHANGED <<table, psOk, args, processes, idx, probe, exitCode, emitted>>
    /\ UNCHANGED <<files, pin, pout>>

\* trace_process: the fallback tracer.
FsUsageStep ==
    /\ pc = "fs_usage"
    /\ \E run \in FsUsageRuns :
        /\ Traced(TraceFallback(cur.pid, probe.reason, run))
        /\ lastRun' = Ran("fs_usage", run)
    /\ calls' = Append(calls, Call("fs_usage", cur.pid))
    /\ UNCHANGED <<table, psOk, args, processes, idx, probe, exitCode, emitted>>
    /\ UNCHANGED <<files, pin, pout>>

\* generate_report: generate_flamegraph, whose result is only logged.
FlamegraphStep ==
    /\ pc = "flamegraph"
    /\ \E outcome \in FlamegraphOutcomes :
        files' = generate_flamegraph(files, cur.pid, outcome)
    /\ pc' = "push"
    /\ UNCHANGED <<table, psOk, args, processes, idx, cur, probe, report, calls,
                   exitCode, emitted, lastRun>>
    /\ UNCHANGED pvars

\* generate_report: report.processes.push(proc_report).
PushProcess ==
    /\ pc = "push"
    /\ report' = [report EXCEPT !.processes = Append(@, cur)]
    /\ idx' = idx + 1
    /\ pc' = "proc"
    /\ UNCHANGED <<table, psOk, args, processes, cur, probe, calls, exitCode, emitted, lastRun>>
    /\ UNCHANGED <<files, pin, pout>>

CpuIssueFirst(critical, total) ==
    (IF total > 1000 THEN <<CpuString>> ELSE <<>>) \o critical

\* report.summary.critical_issues.push(...) after the loop over the processes.
WithCpuIssue(critical, total) ==
    critical \o (IF ExceedsSingleCore(total) THEN <<CpuString>> ELSE <<>>)

\* generate_report: the overall health assessment; main prints the report.
Finish ==
    /\ pc = "proc"
    /\ idx > Len(processes)
    /\ report' = [report EXCEPT
            !.summary.critical_issues =
                WithCpuIssue(@, report.summary.total_cpu)]
    /\ emitted' = "report"
    /\ exitCode' = 0
    /\ pc' = "exit"
    /\ UNCHANGED <<table, psOk, args, processes, idx, cur, probe, calls, lastRun>>
    /\ UNCHANGED <<files, pin, pout>>

Next ==
    \/ Locate
    \/ PidNotFound
    \/ NoProcesses
    \/ StartReport
    \/ BeginProcess
    \/ SampleStep
    \/ FdStep
    \/ ProbeStep
    \/ DtrussStep
    \/ FsUsageStep
    \/ FlamegraphStep
    \/ PushProcess
    \/ Finish

Spec == Init /\ [][Next]_vars

(***************************************************************************)
(* The run when a tool may never exit.  dtruss and fs_usage are started    *)
(* under `timeout`, which ends them with exit code 124, a run DtrussStep   *)
(* and FsUsageStep already take.  sample, lsof and the probe are started   *)
(* through Command::output(), which waits for the child without a limit.   *)
(***************************************************************************)
LiveTables == { <<Header>>, <<Header, Candidate("101", "60.0")>> }

InitLive ==
    /\ table \in LiveTables
    /\ psOk \in BOOLEAN
    /\ args \in ArgConfigs
    /\ Idle
    /\ pin = NoInput
    /\ pout = <<>>

\* The call is made and never returns.
Blocked(tool) ==
    /\ calls' = Append(calls, Call(tool, cur.pid))
    /\ pc' = "blocked"
    /\ UNCHANGED <<table, psOk, args, processes, idx, cur, probe, report,
                   exitCode, emitted, lastRun, files, pin, pout>>

\* sample_process: run_cmd("sample", ...) on a sampler that never exits.
SampleHangs == pc = "sample" /\ Blocked("sample")

\* analyze_file_descriptors: run_cmd("lsof", ...) on an lsof that never exits.
FdHangs == pc = "fd" /\ Blocked("lsof")

\* check_dtrace_available: `sudo -n dtruss -h` never exits.
ProbeHangs == pc = "probe" /\ Blocked("probe")

NextLive == Next \/ SampleHangs \/ FdHangs \/ ProbeHangs

\* Locate has no guard but pc = "start": LocateDue is enabled exactly when
\* Locate is, and weak fairness on it says that main does not stay at its
\* start forever.
LocateDue ==
    /\ pc = "start"
    /\ pc' = "filter"
    /\ UNCHANGED <<table, psOk, args, processes, idx, cur, probe, report,
                   calls, exitCode, emitted, lastRun, files, pin, pout>>

\* The process is scheduled as long as it has a step to take.
SpecLive ==
    /\ InitLive
    /\ [][NextLive]_vars
    /\ WF_vars(LocateDue)
    /\ WF_vars(pc # "start" /\ NextLive)

(***************************************************************************)
(* The process locator on its own, over a larger set of process tables     *)
(***************************************************************************)
InitLocator ==
    /\ table \in LocatorTables
    /\ psOk \in BOOLEAN
    /\ args = Flags(FALSE, FALSE, FALSE, FALSE, FALSE, FALSE, FALSE, 0)
    /\ Idle
    /\ pin = NoInput
    /\ pout = <<>>

NextLocator == Locate

SpecLocator == InitLocator /\ [][NextLocator]_vars

(***************************************************************************)
(* The parsers and analyses on their own: one text is chosen and the       *)
(* function is applied to it, up to MaxApply times.                        *)
(***************************************************************************)
MaxTraceLines == 3  \* longest trace text built from the pool of lines

MaxApply == 2       \* applications of a function to the same text

RECURSIVE SeqsUpTo(_, _)
SeqsUpTo(S, n) ==
    IF n = 0 THEN {<<>>}
    ELSE LET shorter == SeqsUpTo(S, n - 1)
         IN  shorter \cup {Append(t, x) : t \in {u \in shorter : Len(u) = n - 1},
                                          x \in S}

TraceLinePool ==
    { TraceLine("read", "3", "", "", "", TRUE, "42", 5, 1),
      TraceLine("sendto", "5", "", "", "", TRUE, "42", 5, 1),
      TraceLine("read", "3", "/etc/hosts", "", "", TRUE, "-1", 7, 2),
      TraceLine("connect", "5", "", "10.0.0.1", "443", TRUE, "0", 7, 1),
      TraceLine("connect", "5", "", "10.0.0.1", "70000", TRUE, "0", 12, 1),
      TraceLine("poll", "0x1f", "", "", "", TRUE, "0", 5, 3),
      JunkLine }

\* Every rule of analyze_dtrace_issues one above its limit: 1001 polls,
\* 101 errors of read and open, two names slower than 10 ms on average,
\* 5001 file operations.
BusyTrace ==
    << TraceLine("poll", "0x1f", "", "", "", TRUE, "0", 5, 600),
       TraceLine("kevent", "5", "", "", "", TRUE, "0", 5, 400),
       TraceLine("kevent64", "5", "", "", "", TRUE, "0", 5, 1),
       JunkLine,
       TraceLine("read", "3", "", "", "", FALSE, "Err#9", 10001, 60),
       TraceLine("open", "", "/etc/hosts", "", "", FALSE, "-1", 20000, 41),
       TraceLine("access", "", "/etc/hosts", "", "", TRUE, "0", 5, 4960) >>

\* Every rule at its limit: 1000 polls, 100 errors, an average of exactly
\* 10 ms, 10 calls of a slow name, 5000 file operations.
CalmTrace ==
    << TraceLine("poll", "0x1f", "", "", "", TRUE, "0", 5, 600),
       TraceLine("select", "5", "", "", "", TRUE, "0", 5, 400),
       TraceLine("read", "3", "", "", "", FALSE, "Err#9", 10000, 60),
       TraceLine("open", "", "/etc/hosts", "", "", FALSE, "-1", 10000, 40),
       TraceLine("write", "3", "", "", "", FALSE, "42", 20000, 10),
       TraceLine("access", "", "/etc/hosts", "", "", TRUE, "0", 5, 4960) >>

\* A name whose lines are fast and slow: 11 calls, 10 ms and more on average.
MixedTrace ==
    << TraceLine("read", "3", "", "", "", TRUE, "42", 9999, 10),
       TraceLine("read", "3", "", "", "", TRUE, "42", 20001, 1),
       TraceLine("sendto", "5", "", "", "", TRUE, "42", 5, 11) >>

\* Results of every kind: an error marker, -1, another negative number and
\* a byte count.
ResultsTrace ==
    << TraceLine("open", "", "/etc/hosts", "", "", TRUE, "Err#2", 5, 1),
       TraceLine("read", "3", "", "", "", TRUE, "-1", 5, 1),
       TraceLine("read", "3", "", "", "", TRUE, "42", 5, 1),
       TraceLine("lseek", "3", "", "", "", TRUE, "-10", 5, 2) >>

ParserTraceTexts ==
    SeqsUpTo(TraceLinePool, MaxTraceLines)
        \cup {BusyTrace, CalmTrace, MixedTrace, ResultsTrace}

MaxFdBlocks == 2    \* longest descriptor listing built from the pool of rows

FdRowPool ==
    { FdRow(9, "REG", "/tmp/a", FALSE, FALSE, TRUE, 3),
      FdRow(10, "IPv4", "host:443", FALSE, TRUE, TRUE, 2),
      FdRow(9, "KQUEUE", "count=0", TRUE, FALSE, FALSE, 1),
      FdRow(8, "REG", "", FALSE, FALSE, TRUE, 2),
      FdRow(9, "REG", "/tmp/a", FALSE, FALSE, TRUE, 1000) }

ParserFdListings ==
    SeqsUpTo(FdRowPool, MaxFdBlocks)
        \cup { << FdRow(9, "REG", "/tmp/a", FALSE, FALSE, TRUE, 1001) >>,
               << FdRow(8, "REG", "", FALSE, FALSE, TRUE, 500),
                  FdRow(9, "REG", "/tmp/a", FALSE, FALSE, TRUE, 501) >>,
               << FdRow(10, "IPv4", "host:443", FALSE, TRUE, TRUE, 30),
                  FdRow(9, "REG", "/tmp/a", FALSE, FALSE, TRUE, 971) >>,
               << FdRow(10, "IPv4", "host:443", FALSE, TRUE, TRUE, 30),
                  FdRow(9, "REG", "/tmp/a", FALSE, FALSE, TRUE, 970) >>,
               << FdRow(9, "KQUEUE", "/src/dir", TRUE, FALSE, TRUE, 100) >>,
               << FdRow(9, "KQUEUE", "/src/dir", TRUE, FALSE, TRUE, 101) >> }

MaxSampleBlocks == 2  \* longest sample text built from the pool of blocks

SampleBlockPool ==
    { SampleBlock("foo::bar(", "foo::bar", 30),
      SampleBlock("baz::qux(", "baz::qux", 5),
      SampleBlock("baz::qux(", "baz::qux", 30),
      SampleBlock("+[NSView draw]", "NSView draw", 5),
      SampleBlock("+[ab]", "ab", 40),
      SampleBlock("kevent64", "", 51) }

\* More than 20 function names, two of them with the same count where the
\* list is cut, one name in two places, and two names of three characters
\* or fewer that occur most often.
CrowdedSample ==
    << SampleBlock("ns::f22(", "ns::f22", 1),
       SampleBlock("ns::f21(", "ns::f21", 5),
       SampleBlock("baz::qux(", "baz::qux", 5),
       SampleBlock("+[ab]", "ab", 40),
       SampleBlock("ns::f19(", "ns::f19", 12),
       SampleBlock("ns::f18(", "ns::f18", 13),
       SampleBlock("ns::f17(", "ns::f17", 14),
       SampleBlock("ns::f16(", "ns::f16", 15),
       SampleBlock("ns::f15(", "ns::f15", 16),
       SampleBlock("+[abc]", "abc", 35),
       SampleBlock("ns::f14(", "ns::f14", 17),
       SampleBlock("ns::f13(", "ns::f13", 18),
       SampleBlock("ns::f12(", "ns::f12", 19),
       SampleBlock("ns::f11(", "ns::f11", 20),
       SampleBlock("ns::f10(", "ns::f10", 21),
       SampleBlock("ns::f09(", "ns::f09", 22),
       SampleBlock("ns::f08(", "ns::f08", 23),
       SampleBlock("ns::f07(", "ns::f07", 24),
       SampleBlock("ns::f06(", "ns::f06", 25),
       SampleBlock("ns::f05(", "ns::f05", 26),
       SampleBlock("ns::f04(", "ns::f04", 27),
       SampleBlock("ns::f03(", "ns::f03", 28),
       SampleBlock("ns::f02(", "ns::f02", 29),
       SampleBlock("foo::bar(", "foo::bar", 30),
       SampleBlock("ns::f22(", "ns::f22", 1) >>

ParserSampleTexts ==
    SeqsUpTo(SampleBlockPool, MaxSampleBlocks) \cup {CrowdedSample}

ParserPid == 101

\* The tracer ran to its end and wrote text on its standard error.
TracedRun(text) ==
    [started |-> TRUE, code |-> 0, stdout |-> <<>>, stderr |-> text]

\* More than 10 syscall names, the last two with the same count, among them
\* I/O calls with a descriptor and a connect with an address.
CrowdedTrace ==
    << TraceLine("read", "3", "", "", "", TRUE, "42", 5, 12),
       TraceLine("write", "3", "", "", "", TRUE, "42", 5, 11),
       TraceLine("open", "", "/etc/hosts", "", "", TRUE, "3", 5, 10),
       TraceLine("close", "3", "", "", "", TRUE, "0", 5, 9),
       TraceLine("stat", "", "/etc/hosts", "", "", TRUE, "0", 5, 8),
       TraceLine("fstat", "3", "", "", "", TRUE, "0", 5, 7),
       TraceLine("lstat", "", "/etc/hosts", "", "", TRUE, "0", 5, 6),
       TraceLine("poll", "0x1f", "", "", "", TRUE, "0", 5, 5),
       TraceLine("kevent", "5", "", "", "", TRUE, "0", 5, 4),
       TraceLine("connect", "5", "", "10.0.0.1", "443", TRUE, "0", 7, 3),
       TraceLine("sendto", "5", "", "", "", TRUE, "42", 5, 3) >>

\* The texts a tracer leaves on its standard error in a whole session.
SessionTexts ==
    { CrowdedTrace,
      << TraceLine("read", "3", "", "", "", TRUE, "42", 5, 1),
         TraceLine("connect", "5", "", "10.0.0.1", "443", TRUE, "0", 7, 1) >>,
      << TraceLine("poll", "0x1f", "", "", "", TRUE, "0", 5, 1001) >>,
      << JunkLine >> }

mainvars == <<table, psOk, args, pc, processes, idx, cur, probe, report,
              calls, exitCode, emitted, lastRun, files>>

InitParsers ==
    /\ table = <<Header>>
    /\ psOk = TRUE
    /\ args = Flags(FALSE, FALSE, FALSE, FALSE, FALSE, FALSE, FALSE, 0)
    /\ Idle
    /\ pout = <<>>
    /\ \/ \E t \in ParserTraceTexts : pin = [kind |-> "trace", data |-> t]
       \/ \E t \in ParserSampleTexts : pin = [kind |-> "sample", data |-> t]
       \/ \E t \in ParserFdListings : pin = [kind |-> "lsof", data |-> t]
       \/ \E t \in SessionTexts : pin = [kind |-> "session", data |-> t]

\* trace_process on a tracer output: parse_dtruss_output,
\* extract_io_operations, extract_network_operations, analyze_dtrace_issues.
ParseTrace ==
    /\ pin.kind = "trace"
    /\ Len(pout) < MaxApply
    /\ \E summary \in parse_dtruss_output(pin.data) :
        pout' = Append(pout, TraceDtruss(ParserPid, "General",
                                         TracedRun(pin.data), summary))
    /\ UNCHANGED pin
    /\ UNCHANGED mainvars

\* sample_process on a sample file.
SampleOnce ==
    /\ pin.kind = "sample"
    /\ Len(pout) < MaxApply
    /\ \E ok \in BOOLEAN, readable \in BOOLEAN :
        \E hot \in HotFunctions(pin.data) :
            pout' = Append(pout, sample_process(ParserPid,
                        [ok |-> ok, stderr |-> "sample: no such process",
                         readable |-> readable, content |-> pin.data], hot))
    /\ UNCHANGED pin
    /\ UNCHANGED mainvars

\* analyze_file_descriptors on a descriptor listing.
FdOnce ==
    /\ pin.kind = "lsof"
    /\ Len(pout) < MaxApply
    /\ \E ok \in BOOLEAN :
        pout' = Append(pout, analyze_file_descriptors(ParserPid,
                    [ok |-> ok, stderr |-> "lsof: no such pid",
                     rows |-> pin.data]))
    /\ UNCHANGED pin
    /\ UNCHANGED mainvars

\* The whole of trace_process, called once as generate_report calls it: the
\* focus from the flags, the probe, then dtruss or the fs_usage fallback.
TraceSession ==
    /\ pin.kind = "session"
    /\ pout = <<>>
    /\ \E io \in BOOLEAN, network \in BOOLEAN, probeRun \in ProbeRuns :
        LET mode  == DtraceMode([io |-> io, network |-> network])
            avail == check_dtrace_available(probeRun)
        IN  IF avail.available
            THEN \E started \in BOOLEAN, code \in ExitCodes :
                    LET run == [started |-> started, code |-> code,
                                stdout |-> <<>>,
                                stderr |-> IF started THEN pin.data
                                           ELSE <<JunkLine>>]
                    IN  \E summary \in parse_dtruss_output(run.stderr) :
                            pout' = Append(pout,
                                [io |-> io, network |-> network,
                                 result |-> TraceDtruss(ParserPid, mode, run,
                                                        summary)])
            ELSE \E fsRun \in FsUsageRuns :
                    pout' = Append(pout,
                        [io |-> io, network |-> network,
                         result |-> TraceFallback(ParserPid, avail.reason,
                                                  fsRun)])
    /\ UNCHANGED pin
    /\ UNCHANGED mainvars

NextParsers == ParseTrace \/ SampleOnce \/ FdOnce \/ TraceSession

SpecParsers == InitParsers /\ [][NextParsers]_vars

(***************************************************************************)
(* Properties                                                              *)
(***************************************************************************)
\* A trace session of the current process has produced its result.
SessionDone == cur.dtrace # None

Session == cur.dtrace[1]

RECURSIVE CountIn(_, _)
CountIn(s, x) ==
    IF s = <<>> THEN 0
    ELSE (IF Head(s) = x THEN 1 ELSE 0) + CountIn(Tail(s), x)

\* C1: when the capability probe of a trace session reported unavailability,
\* the session's result has method "fs_usage" and its syscall_summary,
\* top_syscalls and network_operations are empty, whether the fallback tool
\* succeeded or not.
C1_FallbackShape ==
    (SessionDone /\ ~probe.available) =>
        /\ Session.method = "fs_usage"
        /\ Session.syscall_summary = <<>>
        /\ Session.top_syscalls = <<>>
        /\ Session.network_operations = <<>>

\* A fallback session that succeeded and produced I/O records.
C1_Witness ==
    /\ SessionDone
    /\ ~probe.available
    /\ lastRun.tool = "fs_usage"
    /\ Session.success
    /\ Session.io_operations # <<>>

IsTraceCall(c) == c.tool \in {"probe", "dtruss", "fs_usage"}

TraceCalls == SelectSeq(calls, IsTraceCall)

\* The trace-related invocations alternate probe, tracer, probe, tracer...
\* with the tracer on the pid of the probe before it.
ProbeThenOneTracer ==
    \A k \in 1..Len(TraceCalls) :
        IF k % 2 = 1 THEN TraceCalls[k].tool = "probe"
        ELSE /\ TraceCalls[k].tool \in {"dtruss", "fs_usage"}
             /\ TraceCalls[k].pid = TraceCalls[k - 1].pid

\* Sessions so far: one per process already traced, in candidate order.
SessionsStarted == (Len(TraceCalls) + 1) \div 2

OneSessionPerProcess ==
    /\ \A k \in 1..SessionsStarted :
            /\ k <= Len(processes)
            /\ TraceCalls[2 * k - 1].pid = processes[k].pid
    /\ (emitted = "report" /\ args.dtrace) => Len(TraceCalls) = 2 * Len(processes)
    /\ ~args.dtrace => TraceCalls = <<>>

\* C2: in every trace session the probe runs once and first, then exactly one
\* tracer runs once: dtruss iff the probe reported availability, fs_usage
\* otherwise; a failing tracer is never followed by the other tracer.
C2_OneProbeOneTracer ==
    /\ ProbeThenOneTracer
    /\ OneSessionPerProcess
    /\ pc = "dtruss" => probe.available /\ calls[Len(calls)] = Call("probe", cur.pid)
    /\ pc = "fs_usage" => ~probe.available /\ calls[Len(calls)] = Call("probe", cur.pid)
    /\ SessionDone =>
        /\ calls[Len(calls)].tool = (IF probe.available THEN "dtruss" ELSE "fs_usage")
        /\ calls[Len(calls)].pid = cur.pid
        /\ Session.method = calls[Len(calls)].tool

\* A finished run of two sessions whose last tracer, the primary one, failed.
C2_Witness ==
    /\ emitted = "report"
    /\ Len(TraceCalls) = 4
    /\ TraceCalls[2].tool = "fs_usage"
    /\ TraceCalls[4].tool = "dtruss"
    /\ ~Session.success

\* What a successful session holds for the tool's output, per tracer.
ParsedAsSuccess(r, tool, run) ==
    /\ r.success
    /\ r.error = None
    /\ IF tool = "dtruss"
       THEN /\ r.syscall_summary \in parse_dtruss_output(run.stderr)
            /\ r.io_operations =
                (IF DtraceMode(args) \in {"Io", "General"}
                 THEN extract_io_operations(run.stderr) ELSE <<>>)
            /\ r.network_operations =
                (IF DtraceMode(args) \in {"Network", "General"}
                 THEN extract_network_operations(run.stderr) ELSE <<>>)
       ELSE r.io_operations = parse_fs_usage_output(run.stdout)

\* C3: for both tracers an invocation that ends with exit code 124 gives
\* success = true, no error and the output parsed into records, exactly as
\* exit code 0 does; any other exit status, or a failure to start the tool,
\* gives success = false with the error recorded.
C3_TimeoutIsSuccess ==
    (SessionDone /\ lastRun.tool \in {"dtruss", "fs_usage"}) =>
        IF lastRun.run.started /\ lastRun.run.code \in {0, 124}
        THEN ParsedAsSuccess(Session, lastRun.tool, lastRun.run)
        ELSE ~Session.success /\ Session.error # None

\* The primary tracer timed out and its trace was parsed.
C3_Witness ==
    /\ SessionDone
    /\ lastRun.tool = "dtruss"
    /\ lastRun.run.started
    /\ lastRun.run.code = 124
    /\ Session.syscall_summary # <<>>

\* C4 as stated: a result whose method is the fallback tracer carries the
\* "Using Fallback Tracing" diagnosis exactly once, whatever the outcome of
\* the fallback tool.
C4_AlwaysFallbackIssue ==
    (SessionDone /\ Session.method = "fs_usage") =>
        CountIn(Session.issues, FallbackIssue) = 1

\* C4 amended: a fallback result carries the "Using Fallback Tracing"
\* diagnosis exactly once, as its only diagnosis, when the fallback tool
\* succeeded (exit 0 or timed out), and carries no diagnosis when it failed.
C4_FallbackIssueOnSuccess ==
    (SessionDone /\ Session.method = "fs_usage") =>
        IF Session.success
        THEN Session.issues = <<FallbackIssue>>
        ELSE Session.issues = <<>>

\* The fallback tool timed out and the diagnosis is attached.
C4_Witness ==
    /\ SessionDone
    /\ Session.method = "fs_usage"
    /\ lastRun.tool = "fs_usage"
    /\ lastRun.run.code = 124
    /\ Session.success
    /\ Session.issues = <<FallbackIssue>>

\* The diagnoses attached to one process entry: sample, descriptors, trace.
EntryDiags(e) ==
    (IF e.sample # None THEN e.sample[1].diagnosis ELSE <<>>)
    \o (IF e.file_descriptors # None THEN e.file_descriptors[1].issues ELSE <<>>)
    \o (IF e.dtrace # None THEN e.dtrace[1].issues ELSE <<>>)

\* Number of diagnoses of the given severity on entry e that str stands for.
DiagsOn(e, str, severity) ==
    Cardinality({j \in 1..Len(EntryDiags(e)) :
        /\ EntryDiags(e)[j].severity = severity
        /\ e.pid = str.pid
        /\ EntryDiags(e)[j].issue = str.issue
        /\ EntryDiags(e)[j].subject = str.subject})

NumDiags(str, severity) ==
    SumSeq([k \in 1..Len(report.processes) |->
                DiagsOn(report.processes[k], str, severity)])

DiagStrings ==
    UNION {{[pid |-> report.processes[k].pid,
             issue |-> EntryDiags(report.processes[k])[j].issue,
             subject |-> EntryDiags(report.processes[k])[j].subject] :
                j \in 1..Len(EntryDiags(report.processes[k]))} :
           k \in 1..Len(report.processes)}

SummaryStrings ==
    Range(report.summary.critical_issues) \cup Range(report.summary.warnings)
        \cup DiagStrings

\* C5: in an emitted report critical_issues holds exactly one pid-prefixed
\* string per high-severity diagnosis of the sample, descriptor and trace
\* sub-results of all entries, plus at most one system-level CPU entry, and
\* warnings holds exactly one per medium-severity diagnosis; low-severity
\* diagnoses are in neither list and no string is without its diagnosis.
C5_SeverityRollup ==
    emitted = "report" =>
        /\ \A str \in SummaryStrings \ {CpuString} :
            /\ CountIn(report.summary.critical_issues, str) = NumDiags(str, "high")
            /\ CountIn(report.summary.warnings, str) = NumDiags(str, "medium")
        /\ CountIn(report.summary.critical_issues, CpuString) <= 1
        /\ CountIn(report.summary.warnings, CpuString) = 0

HasDiag(e, severity) ==
    \E j \in 1..Len(EntryDiags(e)) : EntryDiags(e)[j].severity = severity

\* An emitted report with two entries; the first has a high-severity
\* diagnosis from each of the three sources, a medium and a low one.
C5_Witness ==
    /\ emitted = "report"
    /\ Len(report.processes) = 2
    /\ LET e == report.processes[1]
       IN  /\ e.sample # None /\ e.dtrace # None
           /\ \E j \in 1..Len(e.sample[1].diagnosis) :
                e.sample[1].diagnosis[j].severity = "high"
           /\ e.file_descriptors[1].issues # <<>>
           /\ \E j \in 1..Len(e.dtrace[1].issues) :
                e.dtrace[1].issues[j].severity = "high"
           /\ HasDiag(e, "medium")
           /\ HasDiag(e, "low")
    /\ report.summary.warnings # <<>>

CandidateCpu == SumSeq([k \in 1..Len(processes) |-> processes[k].cpu])

\* C6: summary.total_cpu is the sum of cpu over the candidate processes, and
\* the system-level "exceeds single core" critical issue is there exactly
\* once iff total_cpu is strictly greater than 100, for every combination of
\* options.
C6_TotalCpu ==
    emitted = "report" =>
        /\ report.summary.total_cpu = CandidateCpu
        /\ CountIn(report.summary.critical_issues, CpuString)
             = (IF CandidateCpu > 1000 THEN 1 ELSE 0)

\* 60.0 + 40.0: a total of exactly 100 and no system-level issue.
C6_Witness ==
    /\ emitted = "report"
    /\ Len(processes) = 2
    /\ report.summary.total_cpu = 1000
    /\ CountIn(report.summary.critical_issues, CpuString) = 0

Located == get_claude_pids(psOk, table)

\* C7: a requested pid that no located candidate has ends the run with a
\* nonzero exit, no report and no instrumentation; no requested pid and no
\* candidates ends it with exit 0 after the informational empty result,
\* again without instrumentation.
C7_ExitBehaviour ==
    pc = "exit" =>
        /\ (args.pid # 0 /\ \A k \in 1..Len(Located) : Located[k].pid # args.pid) =>
                /\ exitCode # 0
                /\ emitted = "none"
                /\ calls = <<>>
        /\ (args.pid = 0 /\ Located = <<>>) =>
                /\ exitCode = 0
                /\ emitted = "empty"
                /\ calls = <<>>

\* Tracing was requested for pid 999, which is not among two candidates.
C7_Witness ==
    /\ pc = "exit"
    /\ args.pid # 0
    /\ args.dtrace
    /\ Len(Located) = 2
    /\ exitCode = 1
    /\ calls = <<>>

(***************************************************************************)
(* Properties of the process locator                                       *)
(***************************************************************************)
IsToken(c) == ~IsWhitespace(c)

\* The whitespace-separated non-empty tokens of a row.
Tokens(raw) == SelectSeq(raw, IsToken)

\* Index in s of its n-th token.
TokenIndex(s, n) ==
    CHOOSE k \in 1..Len(s) :
        IsToken(s[k]) /\ Cardinality({j \in 1..k : IsToken(s[j])}) = n

NumericTokensParse(t) ==
    /\ t[1] \in IntTokens /\ t[2] \in IntTokens
    /\ t[3] \in F64Tokens /\ t[4] \in F64Tokens
    /\ t[5] \in IntTokens /\ t[6] \in IntTokens

\* At least 9 tokens, and the six numeric ones parse.
WellFormed(raw) == Len(Tokens(raw)) >= 9 /\ NumericTokensParse(Tokens(raw))

Eligible(raw) ==
    /\ claude_pattern(raw)
    /\ ~exclude_pattern(raw)
    /\ WellFormed(raw)

\* The record the row stands for: the first 8 tokens, and as command the
\* rest of the row from its 9th token on, whitespace included.
RecordOf(raw) ==
    LET t == Tokens(raw)
    IN  [pid     |-> IntValue(t[1]),
         ppid    |-> IntValue(t[2]),
         cpu     |-> F64Value(t[3]),
         mem     |-> F64Value(t[4]),
         rss_kb  |-> IntValue(t[5]),
         vsz_kb  |-> IntValue(t[6]),
         state   |-> <<t[7]>>,
         etime   |-> <<t[8]>>,
         command |-> SubSeq(Trim(raw), TokenIndex(Trim(raw), 9), Len(Trim(raw)))]

Emitted(raw) == \E j \in 1..Len(processes) : processes[j] = RecordOf(raw)

\* C8 as stated: every row after the header that matches the inclusion
\* pattern, not the exclusion pattern, has at least 9 tokens and parsable
\* numeric tokens is emitted with its first 8 tokens and the verbatim rest as
\* command, for any amount of whitespace between the columns.
C8_EveryEligibleRowEmitted ==
    (pc = "filter" /\ psOk) =>
        \A k \in 2..Len(table) : Eligible(table[k]) => Emitted(table[k])

\* The first 9 tokens of the row are separated by single whitespace characters.
SingleSpaced(raw) ==
    \A n \in 1..9 : TokenIndex(Trim(raw), n) = 2 * n - 1

\* rec carries the first 8 tokens of the row and, as command, text with the
\* row's remaining tokens.
CameFrom(rec, raw) ==
    /\ [rec EXCEPT !.command = <<>>] = [RecordOf(raw) EXCEPT !.command = <<>>]
    /\ Tokens(rec.command) = SubSeq(Tokens(raw), 9, Len(Tokens(raw)))

\* recs is, in order, a selection of records of well-formed rows.
RECURSIVE SelectedFrom(_, _)
SelectedFrom(recs, rows) ==
    IF recs = <<>> THEN TRUE
    ELSE IF rows = <<>> THEN FALSE
    ELSE IF WellFormed(Head(rows)) /\ CameFrom(Head(recs), Head(rows))
         THEN SelectedFrom(Tail(recs), Tail(rows))
         ELSE SelectedFrom(recs, Tail(rows))

\* C9: the emitted list is an order-preserving subsequence of the input rows
\* and holds only rows with at least 9 tokens whose numeric tokens parse; a
\* malformed row yields no record and does not keep a later row, eligible
\* and single-spaced, from being emitted.
C9_OrderedWellFormed ==
    pc = "filter" =>
        /\ SelectedFrom(processes, SkipHeader(table))
        /\ psOk => \A k \in 2..Len(table) :
                (Eligible(table[k]) /\ SingleSpaced(table[k])) => Emitted(table[k])

\* A row with an unparsable pid is skipped and the row after it is emitted.
C9_Witness ==
    /\ pc = "filter"
    /\ Len(table) = 3
    /\ Len(Tokens(table[2])) >= 9
    /\ ~WellFormed(table[2])
    /\ Len(processes) = 1
    /\ processes[1] = RecordOf(table[3])

HasSelfName(cells) == \E k \in 1..Len(cells) : cells[k] \in SelfTokens

\* C10: no emitted record has a command that contains claude-trace or
\* claude-diagnose, although such a row matches the inclusion pattern.
C10_SelfExcluded ==
    pc = "filter" =>
        \A j \in 1..Len(processes) : ~HasSelfName(processes[j].command)

\* A well-formed, single-spaced claude-trace row is dropped while the other
\* row of the table is emitted.
C10_Witness ==
    /\ pc = "filter"
    /\ Len(table) = 3
    /\ HasSelfName(table[2])
    /\ claude_pattern(table[2])
    /\ WellFormed(table[2])
    /\ SingleSpaced(table[2])
    /\ Len(processes) = 1
    /\ processes[1] = RecordOf(table[3])

(***************************************************************************)
(* Properties of the parsers                                               *)
(***************************************************************************)
\* C11: two applications of parse_dtruss_output to the same trace text give
\* the same list of records, in the same order, ties in count included.
C11_ParseTwiceIdentical ==
    (pin.kind = "trace" /\ Len(pout) >= 2) =>
        pout[1].syscall_summary = pout[2].syscall_summary

\* The blocks of a text whose lines have the syscall shape and this name.
BlocksOf(text, name) ==
    {k \in 1..Len(text) : text[k].name # "" /\ text[k].name = name}

MatchedBlocks(text) == {k \in 1..Len(text) : text[k].name # ""}

LinesIn(text, blocks) ==
    SumSeq([k \in 1..Len(text) |-> IF k \in blocks THEN text[k].reps ELSE 0])

TimeIn(text, blocks) ==
    SumSeq([k \in 1..Len(text) |->
                IF k \in blocks THEN text[k].reps * text[k].time ELSE 0])

SummaryOk(text, s) ==
    /\ \A a, b \in 1..Len(s) : a # b => s[a].name # s[b].name
    /\ {s[k].name : k \in 1..Len(s)} = {text[k].name : k \in MatchedBlocks(text)}
    /\ \A k \in 1..Len(s) :
        /\ s[k].count >= 1
        /\ s[k].count = LinesIn(text, BlocksOf(text, s[k].name))
        /\ s[k].total_time_us = TimeIn(text, BlocksOf(text, s[k].name))
        /\ s[k].avg_time_us = <<s[k].total_time_us, s[k].count>>
    /\ SumSeq([k \in 1..Len(s) |-> s[k].count]) = LinesIn(text, MatchedBlocks(text))
    /\ \A k \in 1..(Len(s) - 1) : s[k].count >= s[k + 1].count

\* C20: parse_dtruss_output returns one record per distinct name among the
\* lines of the syscall shape; a record's count is the number of those lines
\* (at least 1, and the counts add up to the number of matched lines), its
\* total time the sum of their times, its average total over count; other
\* lines change nothing; the records are in non-increasing order of count.
C20_SummaryPerName ==
    pin.kind = "trace" =>
        \A k \in 1..Len(pout) : SummaryOk(pin.data, pout[k].syscall_summary)

\* A text with a line of another shape, parsed into two records of
\* different counts.
C20_Witness ==
    /\ pin.kind = "trace"
    /\ Len(pout) >= 1
    /\ \E k \in 1..Len(pin.data) : pin.data[k] = JunkLine
    /\ Len(pout[1].syscall_summary) = 2
    /\ pout[1].syscall_summary[1].name = "read"
    /\ pout[1].syscall_summary[1].count = 2
    /\ pout[1].syscall_summary[1].total_time_us = 14
    /\ pout[1].syscall_summary[2].count = 1

\* C19: every record of extract_network_operations has an address and a
\* port, or neither.
C19_AddressAndPortTogether ==
    pin.kind = "trace" =>
        \A k \in 1..Len(pout) :
            \A j \in 1..Len(pout[k].network_operations) :
                (pout[k].network_operations[j].address = None)
                    <=> (pout[k].network_operations[j].port = None)

\* Occurrences in a sample text of the function identifier f.
Occurrences(content, f) ==
    SumSeq([k \in 1..Len(content) |->
                IF content[k].func = f THEN content[k].reps ELSE 0])

Listed(hot) == {hot[j].function : j \in 1..Len(hot)}

HotOk(content, hot) ==
    /\ Len(hot) <= 20
    /\ \A j \in 1..Len(hot) :
        /\ Len(hot[j].function) > 3
        /\ hot[j].samples = Occurrences(content, hot[j].function)
    /\ \A j \in 1..(Len(hot) - 1) : hot[j].samples >= hot[j + 1].samples
    /\ \A k \in 1..Len(content) :
        (content[k].func # "" /\ Len(content[k].func) > 3
            /\ content[k].func \notin Listed(hot)) =>
            \A j \in 1..Len(hot) :
                Occurrences(content, content[k].func) <= hot[j].samples

\* C12: after a successful sample, hot_functions has at most 20 entries, each
\* with an identifier longer than 3 characters and samples equal to the
\* identifier's number of occurrences in the text, in non-increasing order of
\* samples, and no identifier left out occurs more often than a listed one.
C12_HotFunctions ==
    pin.kind = "sample" =>
        \A k \in 1..Len(pout) :
            (pout[k].success /\ pout[k].error = None) =>
                HotOk(pin.data, pout[k].hot_functions)

\* The list was cut at 20 out of 22 names, starts with foo::bar at 30 and
\* ends with one of the two names that occur 5 times.
C12_Witness ==
    /\ pin.kind = "sample"
    /\ pin.data = CrowdedSample
    /\ Len(pout) >= 1
    /\ pout[1].success /\ pout[1].error = None
    /\ Len(pout[1].hot_functions) = 20
    /\ pout[1].hot_functions[1] = [function |-> "foo::bar", samples |-> 30]
    /\ pout[1].hot_functions[20] = [function |-> "baz::qux", samples |-> 5]

\* Number of diagnoses of a list with this issue and subject.
Raised(issues, issue, subject) ==
    Cardinality({j \in 1..Len(issues) :
                    issues[j].issue = issue /\ issues[j].subject = subject})

RaisedIff(issues, issue, fires) ==
    Raised(issues, issue, "") = IF fires THEN 1 ELSE 0

\* Sum over the records of a summary with a name in names.
CountSum(s, names) ==
    SumSeq([j \in 1..Len(s) |-> IF s[j].name \in names THEN s[j].count ELSE 0])

ErrorSum(s, names) ==
    SumSeq([j \in 1..Len(s) |-> IF s[j].name \in names THEN s[j].errors ELSE 0])

ListingRows(rows) == SumSeq([j \in 1..Len(rows) |-> rows[j].reps])

TraceRulesOk(r) ==
    LET s == r.syscall_summary
    IN  /\ RaisedIff(r.issues, "Excessive Event Polling",
                CountSum(s, {"poll", "select", "kevent", "kevent64"}) > 1000)
        /\ RaisedIff(r.issues, "Excessive File Operations",
                CountSum(s, {"open", "close", "stat", "fstat", "lstat",
                             "access"}) > 5000)
        /\ RaisedIff(r.issues, "High I/O Error Rate",
                ErrorSum(s, {"read", "write", "open", "stat"}) > 100)
        /\ \A j \in 1..Len(s) :
            Raised(r.issues, "Slow syscalls", s[j].name) =
                IF s[j].total_time_us > 10000 * s[j].count /\ s[j].count > 10
                THEN 1 ELSE 0
        /\ \A j \in 1..Len(r.issues) :
            r.issues[j].issue = "Slow syscalls" =>
                \E i \in 1..Len(s) : s[i].name = r.issues[j].subject

\* C13: each count rule fires exactly when its counted value is strictly
\* above its limit: "High File Descriptor Count" iff the listing has more
\* than 1000 rows after its header; "Excessive Event Polling" iff the
\* poll/select/kevent/kevent64 counts add up to more than 1000; "Excessive
\* File Operations" iff the file-metadata counts add up to more than 5000;
\* "High I/O Error Rate" iff the I/O error counts add up to more than 100;
\* one "Slow syscalls" diagnosis per name whose average time is above 10 ms
\* and whose count is above 10, and none for any other name.
C13_StrictThresholds ==
    /\ pin.kind = "lsof" =>
        \A k \in 1..Len(pout) :
            pout[k].error = None =>
                RaisedIff(pout[k].issues, "High File Descriptor Count",
                          ListingRows(pin.data) > 1000)
    /\ pin.kind = "trace" =>
        \A k \in 1..Len(pout) : TraceRulesOk(pout[k])

\* The trace with every counted value one above its limit: all four rules
\* fired, the slow rule for two names.
C13_Witness ==
    /\ pin = [kind |-> "trace", data |-> BusyTrace]
    /\ Len(pout) >= 1
    /\ Raised(pout[1].issues, "Excessive Event Polling", "") = 1
    /\ Raised(pout[1].issues, "High I/O Error Rate", "") = 1
    /\ Raised(pout[1].issues, "Excessive File Operations", "") = 1
    /\ Raised(pout[1].issues, "Slow syscalls", "read") = 1
    /\ Raised(pout[1].issues, "Slow syscalls", "open") = 1
    /\ Len(pout[1].issues) = 5

\* The distinct names on the watcher rows of a listing.
WatchedNames(rows) ==
    UNION { {<<rows[j].name, IF rows[j].distinct THEN k ELSE 0>> :
                k \in 1..rows[j].reps} :
            j \in {i \in 1..Len(rows) : rows[i].watcher} }

\* C14: a listing with more than 100 distinct watched paths gives the
\* high-severity diagnosis "Excessive File Watching", which the report
\* promotes to its critical issues; one with 100 or fewer does not give it.
C14_ExcessiveWatching ==
    pin.kind = "lsof" =>
        \A k \in 1..Len(pout) :
            pout[k].error = None =>
                IF Cardinality(WatchedNames(pin.data)) > 100
                THEN /\ Raised(pout[k].issues, "Excessive File Watching", "") = 1
                     /\ \E j \in 1..Len(PromoteFd(ParserPid, pout[k].issues)) :
                            PromoteFd(ParserPid, pout[k].issues)[j].issue
                                = "Excessive File Watching"
                ELSE Raised(pout[k].issues, "Excessive File Watching", "") = 0

(***************************************************************************)
(* Properties of the run as a whole                                        *)
(***************************************************************************)
Pids(s) == [k \in 1..Len(s) |-> s[k].pid]

Totals == <<report.summary.total_cpu, report.summary.total_mem,
            report.summary.total_rss_mb>>

\* A run with candidates ends with the report: one entry per candidate, in
\* candidate order, and totals that depend on the candidates alone.
ReportComplete ==
    (pc = "exit" /\ processes # <<>>) =>
        /\ emitted = "report"
        /\ exitCode = 0
        /\ Pids(report.processes) = Pids(processes)
        /\ report.summary.total_cpu = CandidateCpu
        /\ report.summary.total_mem
             = SumSeq([k \in 1..Len(processes) |-> processes[k].mem])
        /\ report.summary.total_rss_mb
             = SumSeq([k \in 1..Len(processes) |-> processes[k].rss_kb \div 1024])

ToolFailed ==
    CASE lastRun.tool = "sample" -> ~lastRun.run.ok \/ ~lastRun.run.readable
      [] lastRun.tool = "lsof" -> ~lastRun.run.ok
      [] lastRun.tool \in {"dtruss", "fs_usage"} ->
            ~lastRun.run.started \/ lastRun.run.code \notin {0, 124}
      [] OTHER -> FALSE

\* The failure of the tool that ran last is the error of its sub-result, and
\* that sub-result has no diagnosis.
FailureRecorded ==
    /\ (lastRun.tool = "sample" /\ pc = "fd" /\ ToolFailed) =>
        /\ cur.sample # None
        /\ cur.sample[1].error # None
        /\ cur.sample[1].diagnosis = <<>>
    /\ (lastRun.tool = "lsof" /\ pc \in {"probe", "push"} /\ ToolFailed) =>
        /\ cur.file_descriptors # None
        /\ cur.file_descriptors[1].error # None
        /\ cur.file_descriptors[1].issues = <<>>
    /\ (lastRun.tool \in {"dtruss", "fs_usage"}
            /\ pc \in {"flamegraph", "push"} /\ ToolFailed) =>
        /\ cur.dtrace # None
        /\ cur.dtrace[1].error # None
        /\ ~cur.dtrace[1].success
        /\ cur.dtrace[1].issues = <<>>

\* Whatever a tool did, the next step is the one that follows a success, and
\* no step but the head of the loop body touches the totals.
StepGoesOn ==
    /\ pc = "sample" => pc' = "fd"
    /\ pc = "fd" => pc' = (IF args.dtrace THEN "probe" ELSE "push")
    /\ pc = "probe" => pc' \in {"dtruss", "fs_usage"}
    /\ pc \in {"dtruss", "fs_usage"} => pc' \in {"flamegraph", "push"}
    /\ pc = "flamegraph" => pc' = "push" /\ cur' = cur /\ report' = report
    /\ pc = "push" =>
        /\ pc' = "proc"
        /\ idx' = idx + 1
        /\ report'.processes = Append(report.processes, cur)
    /\ pc \in {"sample", "fd", "probe", "dtruss", "fs_usage", "flamegraph",
               "push"} =>
        /\ Totals' = Totals
        /\ emitted' = emitted
        /\ exitCode' = exitCode

C17_ArtifactsKept ==
    [][\A p \in DOMAIN files : p \in DOMAIN files' /\ files'[p] = files[p]]_vars

\* The tools one process is put through, in order; the tracer is either.
Pattern ==
    (IF args.sample THEN <<{"sample"}>> ELSE <<>>)
    \o (IF args.deep \/ args.sample THEN <<{"lsof"}>> ELSE <<>>)
    \o (IF args.dtrace THEN <<{"probe"}, {"dtruss", "fs_usage"}>> ELSE <<>>)

\* C18: the invocations form one sequence: for each candidate in order the
\* sampler (if sampling), the descriptor listing (if deep), the probe and one
\* tracer (if tracing); all invocations for a process come before those for
\* the next, and no tool is invoked twice for a process.
C18_SequentialTrace ==
    /\ IF Pattern = <<>> THEN calls = <<>>
       ELSE \A k \in 1..Len(calls) :
                LET i == ((k - 1) \div Len(Pattern)) + 1
                    j == ((k - 1) % Len(Pattern)) + 1
                IN  /\ i <= Len(processes)
                    /\ calls[k].pid = processes[i].pid
                    /\ calls[k].tool \in Pattern[j]
    /\ emitted = "report" => Len(calls) = Len(Pattern) * Len(processes)
    /\ \A a, b \in 1..Len(calls) : a # b => calls[a] # calls[b]

\* A finished run over two candidates with sampling and tracing: four
\* invocations for the first, then four for the second.
C18_Witness ==
    /\ emitted = "report"
    /\ Len(processes) = 2
    /\ Len(calls) = 8
    /\ calls[1] = Call("sample", processes[1].pid)
    /\ calls[2] = Call("lsof", processes[1].pid)
    /\ calls[3] = Call("probe", processes[1].pid)
    /\ calls[5] = Call("sample", processes[2].pid)
    /\ calls[8].tool \in {"dtruss", "fs_usage"}

\* C15: every blocking call to a tool is bounded by a timeout, so a run over
\* a finite list of candidates ends and emits its report even when a tool
\* never exits on its own.
C15_RunCompletes == <>(pc = "exit")

\* Lines of the syscall shape with this name whose result is an error marker
\* or -1.
MarkedLines(text, name) ==
    LinesIn(text, {k \in BlocksOf(text, name) :
                    text[k].res \in {"Err#2", "Err#9", "-1"}})

\* C21: parse_dtruss_output counts a matched line as an error iff its result
\* is an error marker Err#N or the value -1; any other result, other
\* negative numbers included, is no error; so errors <= count.
C21_ErrorsCounted ==
    pin.kind = "trace" =>
        \A k \in 1..Len(pout) :
            \A j \in 1..Len(pout[k].syscall_summary) :
                LET e == pout[k].syscall_summary[j]
                IN  /\ e.errors = MarkedLines(pin.data, e.name)
                    /\ e.errors <= e.count

RECURSIVE OfSeverity(_, _, _)
OfSeverity(pid, diags, severity) ==
    IF diags = <<>> THEN <<>>
    ELSE LET d == Head(diags)
             rest == OfSeverity(pid, Tail(diags), severity)
         IN  IF d.severity = severity
             THEN <<[pid |-> pid, issue |-> d.issue, subject |-> d.subject]>> \o rest
             ELSE rest

\* The strings of one severity in the order of the entries of the report,
\* and for one entry in the order sample, descriptors, trace.
InEntryOrder(severity) ==
    Flatten([k \in 1..Len(report.processes) |->
                OfSeverity(report.processes[k].pid,
                           EntryDiags(report.processes[k]), severity)])

C23_SubResultsPresent ==
    emitted = "report" =>
        \A k \in 1..Len(report.processes) :
            LET e == report.processes[k]
            IN  /\ (e.file_descriptors # None) <=> (args.deep \/ args.sample)
                /\ (e.sample # None) <=> args.sample
                /\ (e.dtrace # None) <=> args.dtrace

\* Sampling without tracing: the sampler failed and the descriptor result
\* is there all the same.
C23_Witness ==
    /\ emitted = "report"
    /\ args.sample /\ ~args.dtrace
    /\ Len(report.processes) >= 1
    /\ report.processes[1].sample # None
    /\ report.processes[1].sample[1].error # None
    /\ report.processes[1].file_descriptors # None
    /\ report.processes[1].dtrace = None

\* Rows of a listing with at least 9 fields.
FullRows(rows) ==
    SumSeq([j \in 1..Len(rows) |-> IF rows[j].fields >= 9 THEN rows[j].reps ELSE 0])

RECURSIVE SumOver(_, _)
SumOver(f, keys) ==
    IF keys = {} THEN 0
    ELSE LET t == CHOOSE x \in keys : TRUE
         IN  f[t] + SumOver(f, keys \ {t})

\* The distinct names on the watcher rows with at least 9 fields.
FullWatchedNames(rows) ==
    UNION { {<<rows[j].name, IF rows[j].distinct THEN k ELSE 0>> :
                k \in 1..rows[j].reps} :
            j \in {i \in 1..Len(rows) : rows[i].watcher /\ rows[i].fields >= 9} }

\* C24: after a successful descriptor analysis the by_type counts add up to
\* the number of rows with at least 9 fields and every watcher row among
\* them is taken into watched_paths, for listings with more than 20 network
\* connections too; network_connections has at most 20 entries.
C24_EveryRowCounted ==
    pin.kind = "lsof" =>
        \A k \in 1..Len(pout) :
            pout[k].error = None =>
                /\ SumOver(pout[k].by_type, DOMAIN pout[k].by_type)
                     = FullRows(pin.data)
                /\ pout[k].watched_paths
                     = Min(Cardinality(FullWatchedNames(pin.data)), 50)
                /\ pout[k].network_connections <= 20

(***************************************************************************)
(* trace_process: the shape of every trace result                          *)
(***************************************************************************)
TraceResultOk(r) ==
    /\ r.success <=> r.error = None
    /\ ~r.success =>
          /\ r.syscall_summary = <<>>
          /\ r.top_syscalls = <<>>
          /\ r.io_operations = <<>>
          /\ r.network_operations = <<>>
          /\ r.issues = <<>>
    /\ r.fallback_reason # None <=> r.method = "fs_usage"
    /\ Len(r.top_syscalls) =
          (IF Len(r.syscall_summary) < 10 THEN Len(r.syscall_summary) ELSE 10)
    /\ \A j \in 1..Len(r.top_syscalls) :
          r.top_syscalls[j] = r.syscall_summary[j]

\* C25: every trace result is well-formed: it succeeded exactly when it has
\* no error; a failed result has no summary, no top syscalls, no I/O or
\* network operations and no issues; it has a fallback reason exactly when
\* its method is fs_usage; and its top syscalls are the first
\* min(10, length) entries of its summary.
C25_TraceResultWellFormed ==
    pin.kind = "session" =>
        \A k \in 1..Len(pout) : TraceResultOk(pout[k].result)

\* A dtruss session on the text of 11 names succeeded: the summary has 11
\* entries, 10 of them are the top syscalls, no reason and no error.
C25_Witness ==
    /\ pin.kind = "session"
    /\ Len(pout) = 1
    /\ pout[1].result.method = "dtruss"
    /\ pout[1].result.success
    /\ pout[1].result.fallback_reason = None
    /\ Len(pout[1].result.syscall_summary) = 11
    /\ Len(pout[1].result.top_syscalls) = 10

(***************************************************************************)
(* trace_process: the focus and the lists of a dtruss session              *)
(***************************************************************************)
FocusOk(e, text) ==
    LET r == e.result
    IN  /\ r.syscall_summary \in parse_dtruss_output(text)
        /\ e.io =>
              /\ r.io_operations = extract_io_operations(text)
              /\ r.network_operations = <<>>
        /\ (~e.io /\ e.network) =>
              /\ r.io_operations = <<>>
              /\ r.network_operations = extract_network_operations(text)
        /\ (~e.io /\ ~e.network) =>
              /\ r.io_operations = extract_io_operations(text)
              /\ r.network_operations = extract_network_operations(text)

\* C26: in a successful dtruss session the focus decides the lists: with
\* the I/O flag the result has the I/O operations of the text and no network
\* operations, also when the network flag is set too; with the network flag
\* alone it has the network operations and no I/O operations; with neither
\* flag it has both, from the same text; the summary is that of the text
\* under every focus.
C26_FocusDecidesLists ==
    pin.kind = "session" =>
        \A k \in 1..Len(pout) :
            (pout[k].result.method = "dtruss" /\ pout[k].result.success) =>
                FocusOk(pout[k], pin.data)

\* A dtruss session with both flags set on a text with I/O and connect
\* lines: the I/O operations are listed and no network operation is.
C26_Witness ==
    /\ pin.kind = "session"
    /\ extract_network_operations(pin.data) # <<>>
    /\ Len(pout) = 1
    /\ pout[1].io /\ pout[1].network
    /\ pout[1].result.method = "dtruss" /\ pout[1].result.success
    /\ pout[1].result.io_operations # <<>>
    /\ pout[1].result.network_operations = <<>>
    /\ pout[1].result.syscall_summary # <<>>

====
